---------------------------- MODULE Spec2Model ----------------------------
(***************************************************************************)
(* ASD CoreUtils: the recursive copy / move / remove logic of cp, mv, rm,   *)
(* and the text and directory utilities tail, cat, basename, echo, touch,  *)
(* mkdir (each under a specification of its own, further down).            *)
(*                                                                         *)
(* Each utility is a sequential program.  A behaviour of one of the        *)
(* specifications below (SpecMv, SpecCp, SpecRm; SpecUtils is any of the   *)
(* three, SpecCpFair is cp that keeps running) is one invocation of the    *)
(* utility on a small filesystem: Init draws the filesystem, the operands, *)
(* the parsed options and the control input; every action is one step of   *)
(* the program's code (a loop iteration of main, a system call of          *)
(* move_file / copy_file, a readdir iteration of copy_directory, one       *)
(* handle_remove callback of nftw).  Environment failures of system calls   *)
(* (EACCES, EIO, ENOSPC, ...) are nondeterministic, at most MaxFaults per   *)
(* invocation.                                                             *)
(***************************************************************************)
EXTENDS Integers, Sequences, FiniteSets, TLC

VARIABLES
    prog,      \* the utility that runs: "mv", "cp", "rm", "tail", "cat", ...
    fs,        \* the filesystem: canonical path -> node, DOMAIN = existing entries
    dev2,      \* top-level names that are mount points of a second device
    operands,  \* argv[optind .. argc-1], each a path (sequence of components)
    opts,      \* the option flags after parsing
    stdin,     \* unread characters of standard input (mv, cp, rm: the answers)
    pc,        \* position in the program
    i,         \* index of the operand the main loop is at
    dest_is_dir, \* mv main: S_ISDIR of the last operand, computed once
    io,        \* the streamed copy in progress (move_file / copy_file locals)
    frames,    \* cp: stack of copy_directory activations; rm: pending nftw visits
    fds,       \* number of open file descriptors and directory handles
    exit,      \* process exit status, -1 until the process ends
    faults,    \* environment failures injected so far
    nerr,      \* diagnostics written to stderr
    exit_status, \* rm, mkdir main: the status main will return
    fs0,       \* ghost: the filesystem when the program started
    stdin0,    \* ghost: the control input when the program started
    last,      \* ghost: the last completed call of the function under study
    hist,      \* ghost: the entries acted upon and the failures, in order
    out,       \* tail, cat, basename, echo: what was written to standard output
    loc        \* tail, cat, echo, touch, mkdir: local variables of the running function

\* what an invocation never changes
invocation == <<prog, dev2, operands, opts, fs0, stdin0>>
\* what an invocation of mv, cp or rm never changes
env == <<invocation, out, loc>>
\* what only mv, cp and rm use
fileutil == <<dest_is_dir, io, frames, fds, faults, exit_status, last, hist>>
vars == <<fs, env, stdin, pc, i, dest_is_dir, io, frames, fds, exit, faults,
          nerr, exit_status, last, hist>>

----------------------------------------------------------------------------
(* Bounds of the model *)

\* longest file content, in bytes
MaxFileLen == 3
\* environment failures injected per invocation
MaxFaults == 1
\* symbolic links followed in one path resolution before ELOOP
SymlinkFuel == 2
\* BUFFER_SIZE of mv (8192) and of cp (1 MiB), scaled to the file lengths
MV_BUFFER_SIZE == 2
CP_BUFFER_SIZE == 2
\* PATH_MAX of cp's path buffers, scaled: the longest path, in components
CP_PATH_MAX == 3

----------------------------------------------------------------------------
(* Filesystem *)

File(d) == [kind |-> "file", data |-> d, target |-> <<>>]
Dir == [kind |-> "dir", data |-> <<>>, target |-> <<>>]
Link(t) == [kind |-> "link", data |-> <<>>, target |-> t]

\* the content of length n used for source files: bytes 1..n
D(n) == [k \in 1..n |-> k]

\* result of a failed path resolution (no component is named "?")
NoPath == <<"?">>
NoIo == [src |-> <<>>, dst |-> <<>>, rsrc |-> <<>>, rdst |-> <<>>, off |-> 0,
         buf |-> <<>>, failed |-> "", orig |-> {}]
NoLast == [fn |-> "none"]

IsPrefix(p, q) == Len(p) <= Len(q) /\ SubSeq(q, 1, Len(p)) = p

Exists(f, r) == r = <<>> \/ r \in DOMAIN f
KindAt(f, r) == IF r = <<>> THEN "dir" ELSE f[r].kind

\* Kernel path resolution from the root: cur is the resolved directory so
\* far, rest the components left; follow says whether a symbolic link in the
\* final component is followed.  A missing final component resolves to the
\* path it would be created at.  An empty component (a doubled slash) and "."
\* stay in the directory reached so far.
RECURSIVE Walk(_, _, _, _, _)
Walk(f, cur, rest, follow, fuel) ==
    IF rest = <<>> THEN cur
    ELSE IF Head(rest) \in {"", "."} THEN Walk(f, cur, Tail(rest), follow, fuel)
    ELSE LET nxt == Append(cur, Head(rest))
             final == Tail(rest) = <<>>
         IN  IF nxt \notin DOMAIN f
             THEN IF final THEN nxt ELSE NoPath
             ELSE IF f[nxt].kind = "link" /\ (~final \/ follow)
             THEN IF fuel = 0 THEN NoPath
                  ELSE Walk(f, <<>>, f[nxt].target \o Tail(rest), follow, fuel - 1)
             ELSE IF final \/ f[nxt].kind = "dir"
             THEN Walk(f, nxt, Tail(rest), follow, fuel)
             ELSE NoPath

Real(f, p) == Walk(f, <<>>, p, TRUE, SymlinkFuel)
LReal(f, p) == Walk(f, <<>>, p, FALSE, SymlinkFuel)

\* stat(2) / lstat(2) / access(2, F_OK) succeed
stat_ok(f, p) == Real(f, p) # NoPath /\ Exists(f, Real(f, p))
lstat_ok(f, p) == LReal(f, p) # NoPath /\ Exists(f, LReal(f, p))
access_F_OK(f, p) == stat_ok(f, p)
stat_isdir(f, p) == stat_ok(f, p) /\ KindAt(f, Real(f, p)) = "dir"
lstat_isdir(f, p) == lstat_ok(f, p) /\ KindAt(f, LReal(f, p)) = "dir"

Under(f, r) == {q \in DOMAIN f : IsPrefix(r, q)}
Children(f, r) == {q \in DOMAIN f : Len(q) = Len(r) + 1 /\ IsPrefix(r, q)}
Put(f, r, n) == [q \in DOMAIN f \cup {r} |-> IF q = r THEN n ELSE f[q]]
Del(f, r) == [q \in DOMAIN f \ {r} |-> f[q]]

\* the tree at canonical path r as (relative path, node) pairs
Subtree(f, r) == {<<SubSeq(q, Len(r) + 1, Len(q)), f[q]>> : q \in Under(f, r)}

\* device of the entry at canonical path r
Dev(r) == IF r # <<>> /\ r[1] \in dev2 THEN 1 ELSE 0

\* POSIX basename of an operand without trailing slash
basename(p) == IF p = <<>> THEN "/" ELSE p[Len(p)]

\* rename(2): [err, fs]
rename(f, old, new) ==
    LET ro == LReal(f, old)
        rn == LReal(f, new)
        moved == [q \in ((DOMAIN f \ Under(f, ro)) \ Under(f, rn)) \cup
                        {rn \o SubSeq(s, Len(ro) + 1, Len(s)) : s \in Under(f, ro)} |->
                     IF IsPrefix(rn, q)
                     THEN f[ro \o SubSeq(q, Len(rn) + 1, Len(q))]
                     ELSE f[q]]
    IN  IF ro = NoPath \/ rn = NoPath \/ ro = <<>> \/ rn = <<>> \/ ro \notin DOMAIN f
        THEN [err |-> "ENOENT", fs |-> f]
        ELSE IF Dev(ro) # Dev(rn) THEN [err |-> "EXDEV", fs |-> f]
        ELSE IF ro = rn THEN [err |-> "OK", fs |-> f]
        ELSE IF IsPrefix(ro, rn) THEN [err |-> "EINVAL", fs |-> f]
        ELSE IF rn \in DOMAIN f /\ f[ro].kind = "dir" /\ f[rn].kind # "dir"
        THEN [err |-> "ENOTDIR", fs |-> f]
        ELSE IF rn \in DOMAIN f /\ f[ro].kind = "dir" /\ Children(f, rn) # {}
        THEN [err |-> "ENOTEMPTY", fs |-> f]
        ELSE IF rn \in DOMAIN f /\ f[ro].kind # "dir" /\ f[rn].kind = "dir"
        THEN [err |-> "EISDIR", fs |-> f]
        ELSE [err |-> "OK", fs |-> moved]

\* open(path, O_RDONLY): [ok, r]
open_rdonly(f, p) ==
    IF stat_ok(f, p) THEN [ok |-> TRUE, r |-> Real(f, p)]
    ELSE [ok |-> FALSE, r |-> NoPath]

\* open(path, O_WRONLY | O_CREAT | O_TRUNC, mode): [ok, r, fs]
open_creat_trunc(f, p) ==
    LET r == Real(f, p)
    IN  IF r = NoPath \/ r = <<>> THEN [ok |-> FALSE, r |-> NoPath, fs |-> f]
        ELSE IF r \in DOMAIN f /\ f[r].kind # "file"
        THEN [ok |-> FALSE, r |-> NoPath, fs |-> f]
        ELSE [ok |-> TRUE, r |-> r, fs |-> Put(f, r, File(<<>>))]

\* bytes a descriptor opened on r still has to deliver from offset off
Unread(f, r, off) ==
    IF r \in DOMAIN f /\ f[r].kind = "file" /\ off < Len(f[r].data)
    THEN SubSeq(f[r].data, off + 1, Len(f[r].data))
    ELSE <<>>

\* write(2) of bytes b through a descriptor opened on r
write_to(f, r, b) ==
    IF r \in DOMAIN f /\ f[r].kind = "file"
    THEN Put(f, r, File(f[r].data \o b))
    ELSE f

\* unlink(2): [ok, fs]
unlink(f, p) ==
    LET r == LReal(f, p)
    IN  IF r # NoPath /\ r \in DOMAIN f /\ f[r].kind # "dir"
        THEN [ok |-> TRUE, fs |-> Del(f, r)]
        ELSE [ok |-> FALSE, fs |-> f]


----------------------------------------------------------------------------
(* Helpers shared by the three programs *)

Fault == faults < MaxFaults

\* ghost event: the program did op on path p
Ev(op, p) == [op |-> op, path |-> p]

\* the part of sequence s after its first n elements
Drop(s, n) == SubSeq(s, n + 1, Len(s))

\* index of the first newline of s, 0 if none
RECURSIVE NlAt(_, _)
NlAt(s, k) == IF k > Len(s) THEN 0 ELSE IF s[k] = "nl" THEN k ELSE NlAt(s, k + 1)

Min(a, b) == IF a < b THEN a ELSE b

----------------------------------------------------------------------------
(* mv: src/src/mv/main.c *)

\* sizeof(response) in confirm_overwrite
MV_RESPONSE_SIZE == 10

\* confirm_overwrite: fgets reads up to sizeof(response) - 1 characters, through
\* the first newline; NULL at end of input.  [yes, rest]
confirm_overwrite(in) ==
    IF in = <<>> THEN [yes |-> FALSE, rest |-> in]
    ELSE LET nl == NlAt(in, 1)
             n == IF nl = 0 THEN Min(Len(in), MV_RESPONSE_SIZE - 1)
                  ELSE Min(nl, MV_RESPONSE_SIZE - 1)
         IN  [yes |-> in[1] \in {"y", "Y"}, rest |-> Drop(in, n)]

\* check_same_file: both stat calls succeed and give the same device and
\* inode.  The model has no hard links: an inode is a canonical path.
check_same_file(f, source, dest) ==
    stat_ok(f, source) /\ stat_ok(f, dest) /\ Real(f, source) = Real(f, dest)

NSrc == Len(operands) - 1
mv_dest == operands[Len(operands)]
final_dest(source) ==
    IF dest_is_dir THEN Append(mv_dest, basename(source)) ELSE mv_dest

\* the checks of main's loop body that come before move_file, for a source
\* that exists: [act, rest] with rest the control input left.  wok is the
\* result of access(final_dest, W_OK).
mv_precheck(f, source, final, in, wok) ==
    IF check_same_file(f, source, final) THEN [act |-> "same", rest |-> in]
    ELSE IF access_F_OK(f, final)
    THEN IF opts.no_clobber THEN [act |-> "skip", rest |-> in]
         ELSE LET c == IF opts.interactive THEN confirm_overwrite(in)
                       ELSE [yes |-> TRUE, rest |-> in]
              IN  IF ~c.yes THEN [act |-> "declined", rest |-> c.rest]
                  ELSE IF ~opts.force /\ ~wok THEN [act |-> "perm", rest |-> c.rest]
                  ELSE [act |-> "move", rest |-> c.rest]
    ELSE [act |-> "move", rest |-> in]

\* ghost record of a finished move_file(source, dest): rc, the call of the
\* copy phase that failed ("" if none), the source tree before the move, whether the source
\* path is gone and what is at the destination when move_file returns
MoveDone(f, source, dest, rc, via, failed, orig) ==
    [fn |-> "move_file", src |-> source, dst |-> dest, rc |-> rc, via |-> via,
     copy_failed |-> failed, orig |-> orig,
     src_gone |-> ~lstat_ok(f, source),
     dst_tree |-> IF stat_ok(f, dest) THEN Subtree(f, Real(f, dest)) ELSE {}]

\* main, lines 165-169: --version calls print_version, which exits with
\* EXIT_SUCCESS (line 38); --help calls print_usage, which writes the usage to
\* stderr and exits with EXIT_FAILURE (line 31)
mv_main_options ==
    /\ pc = "start" /\ opts.early # ""
    /\ pc' = "done"
    /\ IF opts.early = "version"
       THEN exit' = 0 /\ UNCHANGED nerr
       ELSE exit' = 1 /\ nerr' = nerr + 1
    /\ UNCHANGED <<fs, env, stdin, i, dest_is_dir, io, frames, fds, faults,
                   exit_status, last, hist>>

\* mv_main_start without the multi-source check of lines 187-190
mv_main_start_unchecked ==
    /\ pc = "start" /\ opts.early = ""
    /\ IF Len(operands) < 2
       THEN /\ pc' = "done" /\ exit' = 1 /\ nerr' = nerr + 1
            /\ UNCHANGED dest_is_dir
       ELSE /\ pc' = "loop" /\ dest_is_dir' = stat_isdir(fs, mv_dest)
            /\ UNCHANGED <<exit, nerr>>
    /\ UNCHANGED <<fs, env, stdin, i, io, frames, fds, faults, exit_status,
                   last, hist>>

\* main, lines 176-190: operand count, stat of the destination, the
\* multi-source check
mv_main_start ==
    /\ pc = "start" /\ opts.early = ""
    /\ IF Len(operands) < 2
       THEN /\ pc' = "done" /\ exit' = 1 /\ nerr' = nerr + 1
            /\ UNCHANGED dest_is_dir
       ELSE IF NSrc > 1 /\ ~stat_isdir(fs, mv_dest)
       THEN /\ pc' = "done" /\ exit' = 1 /\ nerr' = nerr + 1
            /\ dest_is_dir' = FALSE
       ELSE /\ pc' = "loop" /\ dest_is_dir' = stat_isdir(fs, mv_dest)
            /\ UNCHANGED <<exit, nerr>>
    /\ UNCHANGED <<fs, env, stdin, i, io, frames, fds, faults, exit_status,
                   last, hist>>

\* main, line 250: all sources processed
mv_main_exit ==
    /\ pc = "loop" /\ i > NSrc
    /\ pc' = "done" /\ exit' = 0
    /\ UNCHANGED <<fs, env, stdin, i, dest_is_dir, io, frames,
                   fds, faults, nerr, exit_status, last, hist>>

\* main, lines 204-209: free(base) of the pointer basename() returned.  For a
\* source with a directory part that pointer is inside the strdup'ed block:
\* undefined behaviour, which the C library may detect and abort on.
mv_main_free_abort ==
    /\ pc = "loop" /\ i <= NSrc
    /\ access_F_OK(fs, operands[i])
    /\ dest_is_dir /\ Len(operands[i]) > 1
    /\ pc' = "done" /\ exit' = 134
    /\ UNCHANGED <<fs, env, stdin, i, dest_is_dir, io, frames,
                   fds, faults, nerr, exit_status, last, hist>>

\* main, lines 193-248, one iteration up to and including rename(2) in
\* move_file, lines 62-72 and 127-128
mv_main_loop ==
    /\ pc = "loop" /\ i <= NSrc
    /\ LET source == operands[i]
           final == final_dest(source)
       IN  IF ~access_F_OK(fs, source)
           THEN /\ nerr' = nerr + 1 /\ i' = i + 1
                /\ UNCHANGED <<fs, stdin, pc, io, faults, last, hist>>
           ELSE \E wok \in BOOLEAN, rfail \in BOOLEAN :
                LET d == mv_precheck(fs, source, final, stdin, wok)
                    r == IF rfail THEN [err |-> "EACCES", fs |-> fs]
                         ELSE rename(fs, source, final)
                    orig == Subtree(fs, LReal(fs, source))
                IN  /\ stdin' = d.rest
                    /\ IF d.act # "move"
                       THEN /\ ~rfail
                            /\ wok = (d.act # "perm")
                            /\ d.act = "perm" => Fault
                            /\ faults' = IF d.act = "perm" THEN faults + 1 ELSE faults
                            /\ nerr' = IF d.act \in {"same", "perm"} THEN nerr + 1 ELSE nerr
                            /\ i' = i + 1
                            /\ hist' = Append(hist, Ev(d.act, source))
                            /\ UNCHANGED <<fs, pc, io, last>>
                       ELSE /\ wok
                            /\ rfail => Fault
                            /\ faults' = IF rfail THEN faults + 1 ELSE faults
                            /\ hist' = Append(hist, Ev("move", source))
                            /\ IF r.err = "OK"
                               THEN /\ fs' = r.fs /\ i' = i + 1
                                    /\ last' = MoveDone(r.fs, source, final, 0, "rename",
                                                        "", orig)
                                    /\ UNCHANGED <<pc, io, nerr>>
                               ELSE IF r.err = "EXDEV"
                               THEN /\ pc' = "mv_stat"
                                    /\ io' = [NoIo EXCEPT !.src = source, !.dst = final,
                                                          !.orig = orig]
                                    /\ UNCHANGED <<fs, i, nerr, last>>
                               ELSE /\ nerr' = nerr + 2 /\ i' = i + 1
                                    /\ last' = MoveDone(fs, source, final, -1, "rename",
                                                        "", orig)
                                    /\ UNCHANGED <<fs, pc, io>>
    /\ UNCHANGED <<env, dest_is_dir, frames, fds, exit, exit_status>>

\* move_file returns rc to main (lines 243-248) from the cross-device branch
mv_return(f, rc, nfds, failed, diags) ==
    /\ fs' = f
    /\ fds' = nfds
    /\ last' = MoveDone(f, io.src, io.dst, rc, "copy", failed, io.orig)
    /\ nerr' = nerr + diags + (IF rc = 0 THEN 0 ELSE 1)
    /\ io' = NoIo
    /\ pc' = "loop" /\ i' = i + 1

\* move_file, lines 78-82: stat(source)
move_file_stat ==
    /\ pc = "mv_stat"
    /\ \/ /\ stat_ok(fs, io.src)
          /\ pc' = "mv_open_src"
          /\ UNCHANGED <<fs, i, io, fds, faults, nerr, last>>
       \/ /\ Fault /\ faults' = faults + 1
          /\ mv_return(fs, -1, fds, "stat", 1)
    /\ UNCHANGED <<env, stdin, dest_is_dir, frames, exit, exit_status, hist>>

\* move_file, lines 84-89: open(source, O_RDONLY)
move_file_open_src ==
    /\ pc = "mv_open_src"
    /\ \/ /\ open_rdonly(fs, io.src).ok
          /\ io' = [io EXCEPT !.rsrc = open_rdonly(fs, io.src).r]
          /\ fds' = fds + 1
          /\ pc' = "mv_open_dst"
          /\ UNCHANGED <<fs, i, faults, nerr, last>>
       \/ /\ Fault /\ faults' = faults + 1
          /\ mv_return(fs, -1, fds, "open", 1)
    /\ UNCHANGED <<env, stdin, dest_is_dir, frames, exit, exit_status, hist>>

\* move_file, lines 91-97: open(dest, O_WRONLY | O_CREAT | O_TRUNC)
move_file_open_dst ==
    /\ pc = "mv_open_dst"
    /\ LET o == open_creat_trunc(fs, io.dst)
       IN  \/ /\ o.ok
              /\ fs' = o.fs
              /\ io' = [io EXCEPT !.rdst = o.r]
              /\ fds' = fds + 1
              /\ pc' = "mv_read"
              /\ UNCHANGED <<i, faults, nerr, last>>
           \/ /\ ~o.ok
              /\ mv_return(fs, -1, fds - 1, "open", 1)
              /\ UNCHANGED faults
           \/ /\ o.ok /\ Fault /\ faults' = faults + 1
              /\ mv_return(fs, -1, fds - 1, "open", 1)
    /\ UNCHANGED <<env, stdin, dest_is_dir, frames, exit, exit_status, hist>>

\* move_file, line 100: one read(source_fd, buffer, BUFFER_SIZE) and the loop
\* test bytes_read > 0.  A read error (-1) ends the loop like end of file.
move_file_read ==
    /\ pc = "mv_read"
    /\ LET rest == Unread(fs, io.rsrc, io.off)
           isdir == Exists(fs, io.rsrc) /\ KindAt(fs, io.rsrc) = "dir"
       IN  \/ \E n \in 1..Min(MV_BUFFER_SIZE, Len(rest)) :
                /\ io' = [io EXCEPT !.buf = SubSeq(rest, 1, n), !.off = io.off + n]
                /\ pc' = "mv_write"
                /\ UNCHANGED faults
           \/ /\ rest = <<>> /\ ~isdir
              /\ pc' = "mv_finish"
              /\ UNCHANGED <<io, faults>>
           \/ /\ isdir
              /\ io' = [io EXCEPT !.failed = "read"]
              /\ pc' = "mv_finish"
              /\ UNCHANGED faults
           \/ /\ ~isdir /\ Fault /\ faults' = faults + 1
              /\ io' = [io EXCEPT !.failed = "read"]
              /\ pc' = "mv_finish"
    /\ UNCHANGED <<fs, env, stdin, i, dest_is_dir, frames, fds,
                   exit, nerr, exit_status, last, hist>>

\* move_file, lines 101-108: write(dest_fd, buffer, bytes_read); a short or
\* failed write closes both descriptors, unlinks dest and returns -1
move_file_write ==
    /\ pc = "mv_write"
    /\ \/ /\ fs' = write_to(fs, io.rdst, io.buf)
          /\ io' = [io EXCEPT !.buf = <<>>]
          /\ pc' = "mv_read"
          /\ UNCHANGED <<i, fds, faults, nerr, last>>
       \/ /\ Fault /\ faults' = faults + 1
          /\ \E k \in 0..(Len(io.buf) - 1) :
                mv_return(unlink(write_to(fs, io.rdst, SubSeq(io.buf, 1, k)), io.dst).fs,
                          -1, fds - 2, "write", 1)
    /\ UNCHANGED <<env, stdin, dest_is_dir, frames, exit, exit_status, hist>>

\* move_file, lines 111-124: close both descriptors, unlink(source)
move_file_finish ==
    /\ pc = "mv_finish"
    /\ LET u == unlink(fs, io.src)
       IN  \/ /\ u.ok
              /\ mv_return(u.fs, 0, fds - 2, io.failed, 0)
              /\ UNCHANGED faults
           \/ /\ ~u.ok
              /\ mv_return(fs, -1, fds - 2, io.failed, 1)
              /\ UNCHANGED faults
           \/ /\ u.ok /\ Fault /\ faults' = faults + 1
              /\ mv_return(fs, -1, fds - 2, io.failed, 1)
    /\ UNCHANGED <<env, stdin, dest_is_dir, frames, exit, exit_status, hist>>

NextMv ==
    \/ mv_main_options
    \/ mv_main_start
    \/ mv_main_exit
    \/ mv_main_free_abort
    \/ mv_main_loop
    \/ move_file_stat
    \/ move_file_open_src
    \/ move_file_open_dst
    \/ move_file_read
    \/ move_file_write
    \/ move_file_finish

\* the worlds an mv invocation starts in
MvA == {<<>>} \cup {<<"a">> :> File(D(n)) : n \in 0..MaxFileLen}
           \cup {(<<"a">> :> Dir) @@ (<<"a", "f">> :> File(D(1)))}
MvT == {<<>>, <<"t">> :> File(<<9>>), <<"t">> :> Dir,
        (<<"t">> :> Dir) @@ (<<"t", "a">> :> File(<<9>>)),
        (<<"t">> :> Dir) @@ (<<"t", "a">> :> Dir),
        (<<"t">> :> Dir) @@ (<<"t", "a">> :> Dir) @@ (<<"t", "a", "g">> :> File(<<9>>))}
MvOperands == {<< <<"a">>, <<"t">> >>, << <<"a">>, <<"b">>, <<"t">> >>,
               << <<"t", "a">>, <<"t">> >>, << <<"a">> >>,
               << <<"d", "a">>, <<"b">>, <<"t">> >>, << <<"a">>, <<"a">> >>}
\* the flags after the option loop of main, lines 145-174: -f, -i and -n
\* clear one another, so at most one of them is set
\* early is "help" or "version" when the option loop met that long option
MvOpts == {[force |-> m = "f", interactive |-> m = "i", no_clobber |-> m = "n",
            verbose |-> v, early |-> ""] : m \in {"", "f", "i", "n"}, v \in {FALSE}}
          \cup {[force |-> FALSE, interactive |-> FALSE, no_clobber |-> FALSE,
                 verbose |-> FALSE, early |-> e] : e \in {"help", "version"}}
NoLoc == [fn |-> ""]

StdinSet == {<<>>, <<"y", "nl">>, <<"n", "nl">>}

InitCommon ==
    /\ pc = "start" /\ i = 1 /\ dest_is_dir = FALSE
    /\ io = NoIo /\ frames = <<>> /\ fds = 0
    /\ exit = -1 /\ faults = 0 /\ nerr = 0 /\ exit_status = 0
    /\ fs0 = fs /\ stdin0 = stdin
    /\ last = NoLast /\ hist = <<>>
    /\ out = <<>> /\ loc = NoLoc

InitMv ==
    /\ \E fa \in MvA, ft \in MvT :
           fs = fa @@ ft @@ (<<"b">> :> File(D(1))) @@ (<<"d">> :> Dir)
                   @@ (<<"d", "a">> :> File(D(2)))
    /\ dev2 \in {{}, {"t"}}
    /\ operands \in MvOperands
    /\ opts \in MvOpts
    /\ prog = "mv"
    /\ stdin \in (IF opts.interactive THEN StdinSet ELSE {<<>>})
    /\ InitCommon

SpecMv == InitMv /\ [][NextMv]_vars

----------------------------------------------------------------------------
(* Claims about mv *)

\* kind of the source a finished move_file call was given
MovedKind == CHOOSE k \in {"file", "dir", "link", ""} :
                 \/ \E x \in last.orig : x[1] = <<>> /\ x[2].kind = k
                 \/ k = "" /\ ~\E x \in last.orig : x[1] = <<>>

\* C1: in the cross-device fallback of move_file, when a call of the copy
\* phase (stat, open, read or write) has failed, move_file returns -1 and the
\* source path still exists.
C1_FailedCopyKeepsSource ==
    (last.fn = "move_file" /\ last.via = "copy" /\ last.copy_failed # "")
        => (last.rc = -1 /\ ~last.src_gone)

\* C2: when mv has ended and a failure diagnostic was written for some
\* source, the exit status is not 0.
C2_ExitStatusReflectsFailure ==
    (pc = "done" /\ nerr > 0) => exit # 0

\* C3: whenever move_file returned 0 for a regular file or a directory, the
\* source path no longer exists and the destination holds the tree the source
\* held before the move.
C3_MoveRelocatesContent ==
    (last.fn = "move_file" /\ last.rc = 0 /\ MovedKind \in {"file", "dir"})
        => (last.src_gone /\ last.dst_tree = last.orig)

\* main is about to process an existing source whose final destination
\* exists and is another file
DestExists ==
    /\ pc = "loop" /\ i <= NSrc
    /\ access_F_OK(fs, operands[i])
    /\ access_F_OK(fs, final_dest(operands[i]))
    /\ ~check_same_file(fs, operands[i], final_dest(operands[i]))

\* C19: with the no-clobber flag in effect, the step of main for a source
\* whose final destination exists changes nothing in the filesystem, prints
\* no diagnostic and goes on to the next source.
C19_NoClobberSkips ==
    [][(opts.no_clobber /\ DestExists)
           => (fs' = fs /\ nerr' = nerr /\ pc' = "loop" /\ i' = i + 1)]_vars

\* main is about to process a source that is the same file as its final
\* destination
SameFile ==
    /\ pc = "loop" /\ i <= NSrc
    /\ check_same_file(fs, operands[i], final_dest(operands[i]))

\* C20: the step of main for a source that is the same file as its final
\* destination reports 'are the same file', changes nothing in the
\* filesystem and calls no rename, copy or unlink.
C20_SameFileRefused ==
    [][SameFile
           => /\ fs' = fs
              /\ hist' = Append(hist, Ev("same", operands[i]))
              /\ nerr' = nerr + 1
              /\ pc' = "loop" /\ i' = i + 1]_vars

----------------------------------------------------------------------------
(* cp: src/unnamed/part_002 *)

NoNode == [kind |-> "none", data |-> <<>>, target |-> <<>>]
NodeAt(f, r) == IF r = <<>> THEN Dir ELSE IF r \in DOMAIN f THEN f[r] ELSE NoNode

cp_target == operands[Len(operands)]
\* main, line 258: argc - i > 2
cp_multi == NSrc > 1
\* main, lines 262-264 and 291, 298: the destination of one source
cp_dst(source) ==
    IF cp_multi THEN Append(cp_target, basename(source)) ELSE cp_target

\* arguments of a pending copy_file / copy_directory call, with the ghost
\* orig: what lstat gives for src and the bytes src holds, at the call
CallArgs(f, src, dst) ==
    [NoIo EXCEPT !.src = src, !.dst = dst,
                 !.orig = [lnode |-> NodeAt(f, LReal(f, src)),
                           data |-> NodeAt(f, Real(f, src)).data]]

\* ghost record of a finished copy_file(src, dst)
CopyDone(f, rc, skipped, failed) ==
    [fn |-> "copy_file", src |-> io.src, dst |-> io.dst, rc |-> rc,
     skipped |-> skipped, copy_failed |-> failed, in_tree |-> frames # <<>>,
     src_lnode |-> io.orig.lnode, src_data |-> io.orig.data,
     dst_lnode |-> NodeAt(f, LReal(f, io.dst)),
     dst_node |-> NodeAt(f, Real(f, io.dst))]

\* copy_file or copy_directory returns rc to its caller, leaving the stack of
\* copy_directory activations fr.  rc = 0: the caller goes on (main, lines
\* 261-280 and 305-307; copy_directory, line 138).  rc = -1: copy_directory
\* closes its directory and returns -1 (lines 153-162), and so does every
\* activation below it; main returns 1 (lines 270-277, 291-299).
cp_return(f, rc, nfds, diags, fr, lst, ev) ==
    /\ fs' = f
    /\ last' = lst
    /\ nerr' = nerr + diags
    /\ io' = NoIo
    /\ hist' = hist \o ev
    /\ IF rc = 0
       THEN /\ fds' = nfds /\ frames' = fr /\ UNCHANGED exit
            /\ IF fr = <<>> THEN pc' = "loop" /\ i' = i + 1
               ELSE pc' = "cd_readdir" /\ UNCHANGED i
       ELSE /\ fds' = nfds - Len(fr) /\ frames' = <<>>
            /\ pc' = "done" /\ exit' = 1 /\ UNCHANGED i

\* main, lines 223-245: --help prints the usage and returns 0 (lines 225-228);
\* --version is no option of cp: its second character is reported as an
\* unknown option and main returns 1 (lines 239-242)
cp_main_options ==
    /\ pc = "start" /\ opts.early # ""
    /\ pc' = "done"
    /\ IF opts.early = "help"
       THEN exit' = 0 /\ UNCHANGED nerr
       ELSE exit' = 1 /\ nerr' = nerr + 1
    /\ UNCHANGED <<fs, env, stdin, i, dest_is_dir, io, frames, fds, faults,
                   exit_status, last, hist>>

\* main, lines 247-259 and 281-284: operand count and the multi-source check
cp_main_start ==
    /\ pc = "start" /\ opts.early = ""
    /\ IF Len(operands) < 2
       THEN pc' = "done" /\ exit' = 1 /\ nerr' = nerr + 1
       ELSE IF cp_multi /\ ~(~opts.no_target_dir /\ stat_isdir(fs, cp_target))
       THEN pc' = "done" /\ exit' = 1 /\ nerr' = nerr + 1
       ELSE pc' = "loop" /\ UNCHANGED <<exit, nerr>>
    /\ UNCHANGED <<fs, env, stdin, i, dest_is_dir, io, frames, fds, faults,
                   exit_status, last, hist>>

\* main, line 307: return 0
cp_main_exit ==
    /\ pc = "loop" /\ i > NSrc
    /\ pc' = "done" /\ exit' = 0
    /\ UNCHANGED <<fs, env, stdin, i, dest_is_dir, io, frames, fds, faults,
                   nerr, exit_status, last, hist>>

\* main, lines 261-279 (several sources) and 287-304 (one source): stat the
\* source and dispatch on its kind
cp_main_loop ==
    /\ pc = "loop" /\ i <= NSrc
    /\ LET source == operands[i]
           dst == cp_dst(source)
           visit == Ev("visit", source)
       IN  IF ~stat_ok(fs, source)
           THEN /\ hist' = hist \o <<visit, Ev("fail", source)>>
                /\ IF cp_multi
                   THEN i' = i + 1 /\ UNCHANGED <<pc, exit, nerr>>
                   ELSE pc' = "done" /\ exit' = 1 /\ nerr' = nerr + 1 /\ UNCHANGED i
                /\ UNCHANGED io
           ELSE IF stat_isdir(fs, source) /\ ~opts.recursive
           THEN /\ hist' = hist \o <<visit, Ev("fail", source)>>
                /\ nerr' = nerr + 1
                /\ IF cp_multi
                   THEN i' = i + 1 /\ UNCHANGED <<pc, exit>>
                   ELSE pc' = "done" /\ exit' = 1 /\ UNCHANGED i
                /\ UNCHANGED io
           ELSE /\ hist' = Append(hist, visit)
                /\ pc' = IF stat_isdir(fs, source) THEN "cd_enter" ELSE "cf_stat"
                /\ io' = CallArgs(fs, source, dst)
                /\ UNCHANGED <<i, exit, nerr>>
    /\ UNCHANGED <<fs, env, stdin, dest_is_dir, frames, fds, faults, exit_status,
                   last>>

\* copy_directory, lines 125-136: mkdir(dst) with EEXIST ignored, opendir(src).
\* A dst that no longer fits the PATH_MAX buffers (lines 120-121, 142-143) ends
\* the descent: mkdir fails (ENAMETOOLONG) and copy_directory returns -1.
copy_directory_enter ==
    /\ pc = "cd_enter"
    /\ LET rd == IF Len(io.dst) > CP_PATH_MAX THEN NoPath ELSE LReal(fs, io.dst)
           made == IF rd # NoPath /\ ~Exists(fs, rd) THEN Put(fs, rd, Dir) ELSE fs
           ev == Ev(IF NodeAt(fs, LReal(fs, io.src)).kind = "link"
                    THEN "opendir_link" ELSE "opendir", io.src)
           fr == [src |-> io.src, dst |-> io.dst, seen |-> {},
                  snap |-> {q[Len(q)] : q \in Children(made, Real(made, io.src))}]
       IN  \/ /\ rd = NoPath
              /\ cp_return(fs, -1, fds, 1, frames, last, <<Ev("fail", io.src)>>)
              /\ UNCHANGED faults
           \/ /\ rd # NoPath /\ ~Exists(fs, rd) /\ Fault /\ faults' = faults + 1
              /\ cp_return(fs, -1, fds, 1, frames, last, <<Ev("fail", io.src)>>)
           \/ /\ rd # NoPath /\ Fault /\ faults' = faults + 1
              /\ cp_return(made, -1, fds, 1, frames, last, <<Ev("fail", io.src)>>)
           \/ /\ rd # NoPath
              /\ fs' = made
              /\ frames' = Append(frames, fr)
              /\ fds' = fds + 1
              /\ hist' = Append(hist, ev)
              /\ pc' = "cd_readdir"
              /\ io' = NoIo
              /\ UNCHANGED <<i, exit, faults, nerr, last>>
    /\ UNCHANGED <<env, stdin, dest_is_dir, exit_status>>

\* copy_directory, lines 138-168: one readdir; at the end closedir, return 0.
\* readdir returns the entries in any order; an entry created after opendir
\* may or may not be returned.
copy_directory_readdir ==
    /\ pc = "cd_readdir"
    /\ LET top == frames[Len(frames)]
           below == SubSeq(frames, 1, Len(frames) - 1)
           now == {q[Len(q)] : q \in Children(fs, Real(fs, top.src))}
       IN  \/ /\ top.snap \subseteq top.seen
              /\ cp_return(fs, 0, fds - 1, 0, below, last, <<>>)
              /\ UNCHANGED faults
           \/ \E n \in now \ top.seen :
                LET src_path == Append(top.src, n)
                    dst_path == Append(top.dst, n)
                    fr == Append(below, [top EXCEPT !.seen = top.seen \cup {n}])
                IN  /\ frames' = fr
                    /\ \/ /\ Fault /\ faults' = faults + 1
                          /\ hist' = hist \o <<Ev("visit", src_path), Ev("fail", src_path)>>
                          /\ nerr' = nerr + 1
                          /\ UNCHANGED <<pc, io>>
                       \/ /\ hist' = Append(hist, Ev("visit", src_path))
                          /\ IF lstat_isdir(fs, src_path)
                             THEN IF opts.recursive
                                  THEN pc' = "cd_enter" /\ io' = CallArgs(fs, src_path, dst_path)
                                  ELSE UNCHANGED <<pc, io>>
                             ELSE pc' = "cf_stat" /\ io' = CallArgs(fs, src_path, dst_path)
                          /\ UNCHANGED <<faults, nerr>>
                    /\ UNCHANGED <<fs, i, fds, exit, last>>
    /\ UNCHANGED <<env, stdin, dest_is_dir, exit_status>>

\* check_update_condition, lines 171-179: st_mtime of src later than that of
\* dst.  Timestamps are not part of the filesystem model: newer is drawn.
check_update_condition(newer) == newer

\* copy_file, lines 41-61: stat(src), then the conflict policy when dst exists
copy_file_stat ==
    /\ pc = "cf_stat"
    /\ \/ /\ ~stat_ok(fs, io.src)
          /\ cp_return(fs, -1, fds, 1, frames, CopyDone(fs, -1, FALSE, "stat"),
                       <<Ev("fail", io.src)>>)
          /\ UNCHANGED faults
       \/ /\ stat_ok(fs, io.src) /\ Fault /\ faults' = faults + 1
          /\ cp_return(fs, -1, fds, 1, frames, CopyDone(fs, -1, FALSE, "stat"),
                       <<Ev("fail", io.src)>>)
       \/ /\ stat_ok(fs, io.src)
          /\ IF access_F_OK(fs, io.dst) /\ opts.interactive
             THEN /\ pc' = "cf_prompt"
                  /\ UNCHANGED <<fs, i, io, frames, fds, exit, nerr, last, hist>>
             ELSE \E newer \in BOOLEAN :
                    /\ newer \/ (access_F_OK(fs, io.dst) /\ ~opts.force /\ opts.update)
                    /\ IF access_F_OK(fs, io.dst) /\ ~opts.force /\ opts.update
                          /\ ~check_update_condition(newer)
                       THEN cp_return(fs, 0, fds, 0, frames,
                                      CopyDone(fs, 0, TRUE, ""), <<>>)
                       ELSE /\ pc' = "cf_open_src"
                            /\ UNCHANGED <<fs, i, io, frames, fds, exit, nerr, last, hist>>
          /\ UNCHANGED faults
    /\ UNCHANGED <<env, stdin, dest_is_dir, exit_status>>

\* copy_file, lines 50-51: the prompt and response = getchar()
copy_file_prompt ==
    /\ pc = "cf_prompt"
    /\ io' = [io EXCEPT !.buf = IF stdin = <<>> THEN <<"EOF">> ELSE <<Head(stdin)>>]
    /\ stdin' = IF stdin = <<>> THEN stdin ELSE Tail(stdin)
    /\ pc' = "cf_drain"
    /\ UNCHANGED <<fs, env, i, dest_is_dir, frames, fds, exit, faults, nerr,
                   exit_status, last, hist>>

\* copy_file, line 52: one getchar() of `while (getchar() != '\n');`.  At end
\* of input getchar() returns EOF and consumes nothing.
copy_file_drain ==
    /\ pc = "cf_drain"
    /\ io' = [io EXCEPT !.buf = <<io.buf[1], IF stdin = <<>> THEN "EOF" ELSE Head(stdin)>>]
    /\ stdin' = IF stdin = <<>> THEN stdin ELSE Tail(stdin)
    /\ pc' = "cf_drain_test"
    /\ UNCHANGED <<fs, env, i, dest_is_dir, frames, fds, exit, faults, nerr,
                   exit_status, last, hist>>

\* copy_file, lines 52-55: the loop test on the character just read (EOF is
\* not '\n': the loop goes on) and, when the loop ends, the test of response
copy_file_drain_test ==
    /\ pc = "cf_drain_test"
    /\ IF io.buf[2] # "nl"
       THEN /\ pc' = "cf_drain"
            /\ io' = [io EXCEPT !.buf = <<io.buf[1]>>]
            /\ UNCHANGED <<fs, i, frames, fds, exit, nerr, last, hist>>
       ELSE IF io.buf[1] \notin {"y", "Y"}
       THEN cp_return(fs, 0, fds, 0, frames, CopyDone(fs, 0, TRUE, ""), <<>>)
       ELSE /\ pc' = "cf_open_src"
            /\ io' = [io EXCEPT !.buf = <<>>]
            /\ UNCHANGED <<fs, i, frames, fds, exit, nerr, last, hist>>
    /\ UNCHANGED <<env, stdin, dest_is_dir, faults, exit_status>>

\* copy_file, lines 63-69: open(src, O_RDONLY)
copy_file_open_src ==
    /\ pc = "cf_open_src"
    /\ \/ /\ open_rdonly(fs, io.src).ok
          /\ io' = [io EXCEPT !.rsrc = open_rdonly(fs, io.src).r]
          /\ fds' = fds + 1
          /\ pc' = "cf_open_dst"
          /\ UNCHANGED <<fs, i, frames, exit, faults, nerr, last, hist>>
       \/ /\ Fault /\ faults' = faults + 1
          /\ cp_return(fs, -1, fds, 1, frames, CopyDone(fs, -1, FALSE, "open"),
                       <<Ev("fail", io.src)>>)
    /\ UNCHANGED <<env, stdin, dest_is_dir, exit_status>>

\* the open handles after an open(dst) failure without the close of line 77
close_src_fd_missing(n) == n

\* copy_file, line 77: close(src_fd) when open(dst) failed; n handles are open
close_src_fd(n) == n - 1

\* copy_file, lines 71-79: open(dst, O_WRONLY | O_CREAT | O_TRUNC, mode)
copy_file_open_dst ==
    /\ pc = "cf_open_dst"
    /\ LET o == open_creat_trunc(fs, io.dst)
       IN  \/ /\ o.ok
              /\ fs' = o.fs
              /\ io' = [io EXCEPT !.rdst = o.r]
              /\ fds' = fds + 1
              /\ pc' = "cf_read"
              /\ UNCHANGED <<i, frames, exit, faults, nerr, last, hist>>
           \/ /\ ~o.ok
              /\ cp_return(fs, -1, close_src_fd(fds), 1, frames, CopyDone(fs, -1, FALSE, "open"),
                           <<Ev("fail", io.src)>>)
              /\ UNCHANGED faults
           \/ /\ o.ok /\ Fault /\ faults' = faults + 1
              /\ cp_return(fs, -1, close_src_fd(fds), 1, frames, CopyDone(fs, -1, FALSE, "open"),
                           <<Ev("fail", io.src)>>)
    /\ UNCHANGED <<env, stdin, dest_is_dir, exit_status>>

\* copy_file, line 82: one read(src_fd, buffer, BUFFER_SIZE) and the loop test
\* bytes_read > 0; when the loop ends, lines 93-113: close both descriptors,
\* return 0.  A read error (-1) ends the loop like end of file.
copy_file_read ==
    /\ pc = "cf_read"
    /\ LET rest == Unread(fs, io.rsrc, io.off)
           isdir == Exists(fs, io.rsrc) /\ KindAt(fs, io.rsrc) = "dir"
       IN  \/ \E n \in 1..Min(CP_BUFFER_SIZE, Len(rest)) :
                /\ io' = [io EXCEPT !.buf = SubSeq(rest, 1, n), !.off = io.off + n]
                /\ pc' = "cf_write"
                /\ UNCHANGED <<fs, i, frames, fds, exit, faults, nerr, last, hist>>
           \/ /\ rest = <<>> /\ ~isdir
              /\ cp_return(fs, 0, fds - 2, 0, frames, CopyDone(fs, 0, FALSE, ""), <<>>)
              /\ UNCHANGED faults
           \/ /\ isdir
              /\ cp_return(fs, 0, fds - 2, 0, frames, CopyDone(fs, 0, FALSE, "read"),
                           <<Ev("fail", io.src)>>)
              /\ UNCHANGED faults
           \/ /\ ~isdir /\ Fault /\ faults' = faults + 1
              /\ cp_return(fs, 0, fds - 2, 0, frames, CopyDone(fs, 0, FALSE, "read"),
                           <<Ev("fail", io.src)>>)
    /\ UNCHANGED <<env, stdin, dest_is_dir, exit_status>>

\* copy_file, lines 83-90: write(dst_fd, buffer, bytes_read); a short or failed
\* write closes both descriptors and returns -1
copy_file_write ==
    /\ pc = "cf_write"
    /\ \/ /\ fs' = write_to(fs, io.rdst, io.buf)
          /\ io' = [io EXCEPT !.buf = <<>>]
          /\ pc' = "cf_read"
          /\ UNCHANGED <<i, frames, fds, exit, faults, nerr, last, hist>>
       \/ /\ Fault /\ faults' = faults + 1
          /\ \E k \in 0..(Len(io.buf) - 1) :
               LET f == write_to(fs, io.rdst, SubSeq(io.buf, 1, k))
               IN  cp_return(f, -1, fds - 2, 1, frames, CopyDone(f, -1, FALSE, "write"),
                             <<Ev("fail", io.src)>>)
    /\ UNCHANGED <<env, stdin, dest_is_dir, exit_status>>

NextCp ==
    \/ cp_main_options
    \/ cp_main_start
    \/ cp_main_exit
    \/ cp_main_loop
    \/ copy_directory_enter
    \/ copy_directory_readdir
    \/ copy_file_stat
    \/ copy_file_prompt
    \/ copy_file_drain
    \/ copy_file_drain_test
    \/ copy_file_open_src
    \/ copy_file_open_dst
    \/ copy_file_read
    \/ copy_file_write

\* the worlds a cp invocation starts in: x is a regular file, e a directory
\* holding e/g, s a symbolic link to e; a is the source and b the destination
CpBase == (<<"x">> :> File(D(1))) @@ (<<"e">> :> Dir) @@ (<<"e", "g">> :> File(D(1)))
              @@ (<<"s">> :> Link(<<"e">>))
CpA == {<<>>} \cup {<<"a">> :> File(D(n)) : n \in 0..MaxFileLen}
           \cup {(<<"a">> :> Dir) @@ (<<"a", "f">> :> File(D(2))) @@ (<<"a", "d">> :> Dir)
                     @@ (<<"a", "d", "g">> :> File(D(1))),
                 (<<"a">> :> Dir) @@ (<<"a", "f">> :> File(D(1))) @@ (<<"a", "d">> :> Dir),
                 (<<"a">> :> Dir) @@ (<<"a", "l">> :> Link(<<"x">>))
                     @@ (<<"a", "k">> :> Link(<<"e">>))}
CpB == {<<>>, <<"b">> :> File(<<9>>), <<"b">> :> Dir,
        (<<"b">> :> Dir) @@ (<<"b", "f">> :> File(<<9>>)),
        (<<"b">> :> Dir) @@ (<<"b", "d">> :> File(<<9>>))}
CpOperands == {<< <<"a">>, <<"b">> >>, << <<"s">>, <<"b">> >>,
               << <<"a">>, <<"x">>, <<"b">> >>, << <<"m">>, <<"x">>, <<"b">> >>,
               << <<"a">> >>}
\* cp -r a a/b: the destination lies inside the source
CpInside == << <<"a">>, <<"a", "b">> >>
\* the flags after the option loop of main, lines 223-245
CpOpts == {[recursive |-> r, force |-> m = "f", interactive |-> m = "i",
            update |-> m = "u", preserve |-> FALSE, verbose |-> FALSE,
            no_target_dir |-> t, early |-> ""] :
               r \in BOOLEAN, m \in {"", "f", "i", "u"}, t \in {FALSE}}
           \cup {[recursive |-> TRUE, force |-> FALSE, interactive |-> FALSE,
                  update |-> FALSE, preserve |-> FALSE, verbose |-> FALSE,
                  no_target_dir |-> TRUE, early |-> ""]}
           \cup {[recursive |-> TRUE, force |-> FALSE, interactive |-> FALSE,
                  update |-> FALSE, preserve |-> FALSE, verbose |-> FALSE,
                  no_target_dir |-> FALSE, early |-> e] : e \in {"help", "version"}}

InitCp ==
    /\ \E fa \in CpA, fb \in CpB : fs = fa @@ fb @@ CpBase
    /\ dev2 = {}
    /\ opts \in CpOpts
    /\ \/ operands \in CpOperands
       \/ /\ operands = CpInside
          /\ ~Exists(fs, <<"b">>) /\ Exists(fs, <<"a">>)
          /\ opts.recursive /\ opts.early = "" /\ ~opts.interactive
    /\ prog = "cp"
    /\ stdin \in (IF opts.interactive THEN StdinSet ELSE {<<>>})
    /\ InitCommon

SpecCp == InitCp /\ [][NextCp]_vars

\* cp is one sequential process: it takes its next step as long as it has one
SpecCpFair == SpecCp /\ WF_vars(NextCp)

----------------------------------------------------------------------------
(* Claims about cp *)

Visited == {hist[k].path : k \in {j \in 1..Len(hist) : hist[j].op = "visit"}}
Opened == {hist[k].path :
              k \in {j \in 1..Len(hist) : hist[j].op \in {"opendir", "opendir_link"}}}
Failed == \E k \in 1..Len(hist) : hist[k].op = "fail"

\* cp -r SRC DST has ended with status 0: one source, a directory, and no
\* option that lets the conflict policy skip an entry
CpTreeCopied ==
    /\ pc = "done" /\ exit = 0
    /\ Len(operands) = 2
    /\ opts.recursive /\ ~opts.interactive /\ ~opts.update
    /\ lstat_isdir(fs0, operands[1])

\* the entry of the destination tree that mirrors source entry q
Mirror(q) == NodeAt(fs, LReal(fs, cp_target \o Drop(q, Len(operands[1]))))

\* C4: whenever copy_file returned 0 for a regular file without skipping it,
\* the destination is a regular file whose bytes are those the source held.
C4_CopyIsIdentity ==
    (last.fn = "copy_file" /\ last.rc = 0 /\ ~last.skipped
        /\ last.src_lnode.kind = "file")
        => (last.dst_node.kind = "file" /\ last.dst_node.data = last.src_data)

\* C5: after a recursive copy that ended with status 0, every symbolic link of
\* the source tree is a symbolic link with the same target in the destination
\* tree.
C5_LinksCopiedAsLinks ==
    CpTreeCopied =>
        \A q \in Under(fs0, operands[1]) :
            fs0[q].kind = "link" => Mirror(q) = fs0[q]

\* C6: after cp -r SRC DST on a tree of regular files and directories, with no
\* failed call and no diagnostic, every entry of SRC is under DST at the same
\* relative path with the same kind and content, and SRC is unchanged.
C6_TreeMirrored ==
    (CpTreeCopied /\ faults = 0 /\ nerr = 0
        /\ \A q \in Under(fs0, operands[1]) : fs0[q].kind \in {"file", "dir"})
        => /\ \A q \in Under(fs0, operands[1]) : Mirror(q) = fs0[q]
           /\ Subtree(fs, operands[1]) = Subtree(fs0, operands[1])

\* C7: cp never opens a directory through a path whose last component is a
\* symbolic link.
C7_NoDescentThroughLink ==
    \A k \in 1..Len(hist) : hist[k].op # "opendir_link"

\* C8: when cp has ended after entering its copy loop, every source operand
\* and every entry of every directory it opened has been processed.
C8_FailureDoesNotStopCopy ==
    (pc = "done" /\ Len(operands) >= 2
        /\ (cp_multi => ~opts.no_target_dir /\ stat_isdir(fs0, cp_target)))
        => /\ \A k \in 1..NSrc : operands[k] \in Visited
           /\ \A d \in Opened : \A c \in Children(fs0, Real(fs0, d)) :
                  Append(d, c[Len(c)]) \in Visited

\* C10: when cp has ended and some source or entry failed to be copied, the
\* exit status is 1.
C10_ExitStatusReflectsFailure ==
    (pc = "done" /\ Failed) => exit = 1

----------------------------------------------------------------------------
(* rm: src/unnamed/part_005 *)

\* remove(3): unlink for a non-directory, rmdir for a directory.  [ok, fs]
remove(f, p) ==
    LET r == LReal(f, p)
    IN  IF r = NoPath \/ r = <<>> \/ r \notin DOMAIN f THEN [ok |-> FALSE, fs |-> f]
        ELSE IF f[r].kind = "dir" /\ Children(f, r) # {} THEN [ok |-> FALSE, fs |-> f]
        ELSE [ok |-> TRUE, fs |-> Del(f, r)]

\* The visits of nftw(path, fn, 64, FTW_DEPTH | FTW_PHYS): every entry at or
\* under path once, a directory after the entries below it, no symbolic link
\* followed; the entries of one directory come in any order.
RECURSIVE PostOrders(_, _), PostOrdersOf(_, _)
\* the visits without FTW_DEPTH: a directory before the entries below it
PreOrders(f, r) ==
    IF KindAt(f, r) = "dir"
    THEN {<<r>> \o a : a \in PostOrdersOf(f, Children(f, r))}
    ELSE {<<r>>}
PostOrders(f, r) ==
    IF KindAt(f, r) = "dir"
    THEN {a \o <<r>> : a \in PostOrdersOf(f, Children(f, r))}
    ELSE {<<r>>}
PostOrdersOf(f, S) ==
    IF S = {} THEN {<<>>}
    ELSE UNION {{a \o b : a \in PostOrders(f, c), b \in PostOrdersOf(f, S \ {c})} :
                   c \in S}

\* remove_file, lines 65-75: the prompt.  [go, rest]: whether remove_file goes
\* on to remove(path), and the control input left.  A response other than y/Y
\* returns at once; after y/Y the rest of the line is read, to '\n' or EOF.
rm_prompt(in) ==
    IF ~(opts.interactive /\ ~opts.force) THEN [go |-> TRUE, rest |-> in]
    ELSE IF in = <<>> THEN [go |-> FALSE, rest |-> in]
    ELSE IF in[1] \notin {"y", "Y"} THEN [go |-> FALSE, rest |-> Tail(in)]
    ELSE [go |-> TRUE,
          rest |-> IF NlAt(in, 1) = 0 THEN <<>> ELSE Drop(in, NlAt(in, 1))]

\* main, lines 135-161: --help calls usage(EXIT_SUCCESS) (lines 152-154);
\* --version is no option of rm: getopt_long returns '?' and main calls
\* usage(EXIT_FAILURE) (lines 158-159)
rm_main_options ==
    /\ pc = "start" /\ opts.early # ""
    /\ pc' = "done"
    /\ IF opts.early = "help"
       THEN exit' = 0 /\ UNCHANGED nerr
       ELSE exit' = 1 /\ nerr' = nerr + 2
    /\ UNCHANGED <<fs, env, stdin, i, dest_is_dir, io, frames, fds, faults,
                   exit_status, last, hist>>

\* main, lines 163-166: no operand
rm_main_start ==
    /\ pc = "start" /\ opts.early = ""
    /\ IF Len(operands) = 0
       THEN pc' = "done" /\ exit' = 1 /\ nerr' = nerr + 2
       ELSE pc' = "loop" /\ UNCHANGED <<exit, nerr>>
    /\ UNCHANGED <<fs, env, stdin, i, dest_is_dir, io, frames, fds, faults,
                   exit_status, last, hist>>

\* main, line 208: return exit_status
rm_main_exit ==
    /\ pc = "loop" /\ i > Len(operands)
    /\ pc' = "done" /\ exit' = exit_status
    /\ UNCHANGED <<fs, env, stdin, i, dest_is_dir, io, frames, fds, faults,
                   nerr, exit_status, last, hist>>

\* rm_dispatch with the test of options.recursive (line 192) left out
rm_dispatch_always_recursive(f, path) ==
    IF ~lstat_ok(f, path) THEN "nolstat"
    ELSE IF opts.preserve_root /\ ~opts.no_preserve_root /\ path = <<>> THEN "root"
    ELSE IF lstat_isdir(f, path) THEN "nftw"
    ELSE "file"

\* main, lines 173-204: what one iteration does with operand path
rm_dispatch(f, path) ==
    IF ~lstat_ok(f, path) THEN "nolstat"
    ELSE IF opts.preserve_root /\ ~opts.no_preserve_root /\ path = <<>> THEN "root"
    ELSE IF lstat_isdir(f, path)
    THEN IF ~opts.recursive THEN "isdir" ELSE "nftw"
    ELSE "file"

\* main, lines 169-205, one iteration: lstat, the root check, then either the
\* start of nftw (remove_directory_recursive, lines 94-98) or the whole of
\* remove_file (lines 64-91)
rm_main_loop ==
    /\ pc = "loop" /\ i <= Len(operands)
    /\ LET path == operands[i]
           p == rm_prompt(stdin)
           r == remove(fs, path)
           visit == Ev("visit", path)
           asked == IF opts.interactive /\ ~opts.force
                    THEN <<Ev(IF p.go THEN "yes" ELSE "no", path)>> ELSE <<>>
           what == rm_dispatch(fs, path)
       IN  IF what = "nolstat"
           THEN /\ IF ~opts.force
                   THEN nerr' = nerr + 1 /\ exit_status' = 1
                   ELSE UNCHANGED <<nerr, exit_status>>
                /\ i' = i + 1
                /\ hist' = Append(hist, visit)
                /\ UNCHANGED <<fs, stdin, pc, frames, faults>>
           ELSE IF what = "root"
           THEN /\ nerr' = nerr + 1 /\ exit_status' = 1 /\ i' = i + 1
                /\ hist' = hist \o <<visit, Ev("refuse_root", path)>>
                /\ UNCHANGED <<fs, stdin, pc, frames, faults>>
           ELSE IF what = "isdir"
           THEN /\ nerr' = nerr + 1 /\ exit_status' = 1 /\ i' = i + 1
                /\ hist' = hist \o <<visit, Ev("isdir", path), Ev("fail", path)>>
                /\ UNCHANGED <<fs, stdin, pc, frames, faults>>
           ELSE IF what = "nftw"
           THEN /\ \E w \in PostOrders(fs, LReal(fs, path)) : frames' = w
                /\ pc' = "rm_walk"
                /\ hist' = Append(hist, visit)
                /\ UNCHANGED <<fs, stdin, i, faults, nerr, exit_status>>
           ELSE /\ stdin' = p.rest
                /\ i' = i + 1
                /\ IF ~p.go
                   THEN /\ hist' = hist \o <<visit>> \o asked
                        /\ UNCHANGED <<fs, faults, nerr, exit_status>>
                   ELSE \/ /\ r.ok
                           /\ fs' = r.fs
                           /\ hist' = hist \o <<visit>> \o asked \o <<Ev("remove", path)>>
                           /\ UNCHANGED <<faults, nerr, exit_status>>
                        \/ /\ Fault /\ faults' = faults + 1
                           /\ hist' = hist \o <<visit>> \o asked
                                          \o <<Ev("remove", path), Ev("fail", path)>>
                           /\ IF ~opts.force
                              THEN nerr' = nerr + 1 /\ exit_status' = 1
                              ELSE UNCHANGED <<nerr, exit_status>>
                           /\ UNCHANGED fs
                /\ UNCHANGED <<pc, frames>>
    /\ UNCHANGED <<env, dest_is_dir, io, fds, exit, last>>

\* handle_remove, lines 42-61, called by nftw for the next entry; a non-zero
\* return stops the walk and nftw returns it to main (lines 198-200)
handle_remove ==
    /\ pc = "rm_walk"
    /\ LET fpath == Head(frames)
           r == remove(fs, fpath)
           more == Tail(frames) # <<>>
       IN  \/ /\ r.ok
              /\ fs' = r.fs
              /\ hist' = Append(hist, Ev("remove", fpath))
              /\ frames' = Tail(frames)
              /\ pc' = IF more THEN "rm_walk" ELSE "loop"
              /\ i' = IF more THEN i ELSE i + 1
              /\ UNCHANGED <<faults, nerr, exit_status>>
           \/ /\ ~r.ok \/ Fault
              /\ faults' = IF r.ok THEN faults + 1 ELSE faults
              /\ hist' = hist \o <<Ev("remove", fpath), Ev("fail", fpath)>>
              /\ IF ~opts.force
                 THEN /\ nerr' = nerr + 1 /\ exit_status' = 1
                      /\ frames' = <<>> /\ pc' = "loop" /\ i' = i + 1
                 ELSE /\ frames' = Tail(frames)
                      /\ pc' = IF more THEN "rm_walk" ELSE "loop"
                      /\ i' = IF more THEN i ELSE i + 1
                      /\ UNCHANGED <<nerr, exit_status>>
              /\ UNCHANGED fs
    /\ UNCHANGED <<env, stdin, dest_is_dir, io, fds, exit, last>>

NextRm ==
    \/ rm_main_options
    \/ rm_main_start
    \/ rm_main_exit
    \/ rm_main_loop
    \/ handle_remove

\* the worlds an rm invocation starts in: x is a regular file, e a directory
\* holding e/g, s a symbolic link to e; a is the tree to remove
RmBase == (<<"x">> :> File(D(1))) @@ (<<"e">> :> Dir) @@ (<<"e", "g">> :> File(D(1)))
              @@ (<<"s">> :> Link(<<"e">>))
RmA == {<<>>, <<"a">> :> File(D(1)),
        (<<"a">> :> Dir) @@ (<<"a", "f">> :> File(D(1))) @@ (<<"a", "d">> :> Dir)
            @@ (<<"a", "d", "g">> :> File(D(1))),
        (<<"a">> :> Dir) @@ (<<"a", "f">> :> File(D(1))) @@ (<<"a", "h">> :> File(D(1)))
            @@ (<<"a", "l">> :> Link(<<"e">>))}
\* operands are written from the root: <<>> is "/", <<".">> is "/." and
\* <<"", "">> is "//"
RmOperands == {<< <<"a">> >>, << <<"a">>, <<"x">> >>, << <<"s">> >>,
               << <<"m">>, <<"x">> >>, << <<>> >>, << <<".">> >>, << <<"", "">> >>,
               <<>>}
\* the flags after the option loop of main, lines 135-161: -f clears
\* interactive and -i clears force
RmOpts == {[recursive |-> r, force |-> m = "f", interactive |-> m = "i",
            verbose |-> FALSE, preserve_root |-> TRUE, no_preserve_root |-> n,
            early |-> ""] :
               r \in BOOLEAN, m \in {"", "f", "i"}, n \in BOOLEAN}
          \cup {[recursive |-> TRUE, force |-> TRUE, interactive |-> FALSE,
                 verbose |-> FALSE, preserve_root |-> TRUE, no_preserve_root |-> FALSE,
                 early |-> e] : e \in {"help", "version"}}

\* control inputs of rm -i: up to two lines, an answer of several characters
RmStdin == StdinSet \cup {<<"n", "nl", "y", "nl">>, <<"y", "nl", "n", "nl">>,
                          <<"y", "nl", "y", "nl">>, <<"n", "o", "nl", "y", "nl">>,
                          <<"nl", "y", "nl">>}

InitRm ==
    /\ \E fa \in RmA : fs = fa @@ RmBase
    /\ dev2 = {}
    /\ operands \in RmOperands
    /\ opts \in RmOpts
    /\ prog = "rm"
    /\ stdin \in (IF opts.interactive THEN RmStdin ELSE {<<>>})
    /\ InitCommon

SpecRm == InitRm /\ [][NextRm]_vars

\* C17: whenever cp -i asks for a confirmation with the control input at end
\* of file, the invocation goes on and ends.
C17_PromptReturnsAtEOF ==
    (pc = "cf_prompt" /\ stdin = <<>>) ~> (pc = "done")

----------------------------------------------------------------------------
(* Claims about rm *)

Attempted == {hist[k].path : k \in {j \in 1..Len(hist) : hist[j].op = "remove"}}
FailedPaths == {hist[k].path : k \in {j \in 1..Len(hist) : hist[j].op = "fail"}}

\* C9: when rm -r has ended, under every directory operand every entry that
\* does not contain an entry whose removal failed has had its removal
\* attempted.
C9_FailureDoesNotStopSiblings ==
    (pc = "done" /\ opts.recursive)
        => \A k \in 1..Len(operands) :
               (operands[k] # <<>> /\ lstat_isdir(fs0, operands[k]))
                   => \A q \in Under(fs0, operands[k]) :
                          (\A p \in FailedPaths : ~IsPrefix(q, p)) => q \in Attempted

\* C11: when rm has ended and the removal of an operand or of an entry below
\* one has failed, the exit status is 1.
C11_RmExitStatusReflectsFailure ==
    (pc = "done" /\ FailedPaths # {}) => exit = 1

\* the events of hist with operation op
Events(op) == {hist[k].path : k \in {j \in 1..Len(hist) : hist[j].op = op}}

\* operand k is a directory that rm is to remove without -r
DirWithoutR(k) ==
    /\ ~opts.recursive /\ opts.early = ""
    /\ lstat_isdir(fs0, operands[k])
    /\ ~(opts.preserve_root /\ ~opts.no_preserve_root /\ operands[k] = <<>>)

\* C13: without -r, nothing at or below a directory operand is ever removed;
\* once main has passed the operand an "Is a directory" failure is recorded
\* and the status to return is 1; and when rm has ended every operand has
\* been processed.
C13_DirectoryWithoutRecursive ==
    \A k \in 1..Len(operands) :
        DirWithoutR(k)
            => /\ Subtree(fs, LReal(fs0, operands[k])) = Subtree(fs0, LReal(fs0, operands[k]))
               /\ (k < i => operands[k] \in Events("isdir") /\ exit_status = 1)
               /\ (pc = "done" => /\ exit = 1
                                  /\ \A j \in 1..Len(operands) :
                                         operands[j] \in Events("visit"))

C13_Witness ==
    /\ pc = "done" /\ Len(operands) = 2 /\ DirWithoutR(1)
    /\ <<"a", "f">> \in DOMAIN fs
    /\ <<"x">> \in Events("remove") /\ <<"x">> \notin DOMAIN fs
    /\ exit = 1

\* operand k is a directory that rm -r walks
Walked(k) ==
    /\ opts.recursive /\ opts.early = ""
    /\ lstat_isdir(fs0, operands[k])
    /\ ~(opts.preserve_root /\ ~opts.no_preserve_root /\ operands[k] = <<>>)

\* C14: the removal of an entry is attempted only after the removal of every
\* entry below it has been attempted, no entry's removal is attempted twice,
\* and when rm -r has ended without a failed removal nothing is left at or
\* under a directory operand.
C14_PostOrderRemoval ==
    /\ \A j \in 1..Len(hist) :
           hist[j].op = "remove"
               => /\ \A q \in Under(fs0, hist[j].path) \ {hist[j].path} :
                         \E k \in 1..(j - 1) : hist[k] = Ev("remove", q)
                  /\ \A k \in 1..(j - 1) : hist[k] # hist[j]
    /\ (pc = "done" /\ FailedPaths = {})
           => \A k \in 1..Len(operands) :
                  Walked(k) => Under(fs, LReal(fs0, operands[k])) = {}

C14_Witness ==
    /\ pc = "done" /\ operands = << <<"a">> >> /\ Walked(1)
    /\ <<"a", "d", "g">> \in DOMAIN fs0
    /\ FailedPaths = {}
    /\ Under(fs, <<"a">>) = {}
    /\ Ev("remove", <<"a", "d">>) \in {hist[k] : k \in 1..Len(hist)}

\* operand k denotes the root directory, however it is spelled
RootOperand(k) == LReal(fs0, operands[k]) = <<>>

\* C15: unless --no-preserve-root is given, an invocation whose operands all
\* denote the root directory removes nothing and never starts a walk, and
\* every such operand that main has passed was refused with a diagnostic and
\* the status to return is 1.
C15_RootPreserved ==
    (~opts.no_preserve_root /\ \A k \in 1..Len(operands) : RootOperand(k))
        => /\ fs = fs0
           /\ pc # "rm_walk"
           /\ \A k \in 1..Len(operands) :
                  k < i => /\ operands[k] \in Events("refuse_root") \cup Events("isdir")
                           /\ exit_status = 1

\* C16: when interactive is set, the removal of an entry is attempted only
\* after a confirmation for that entry was answered affirmatively.
C16_EveryRemovalConfirmed ==
    (opts.interactive /\ ~opts.force)
        => \A j \in 1..Len(hist) :
               hist[j].op = "remove"
                   => \E k \in 1..(j - 1) : hist[k] = Ev("yes", hist[j].path)

\* the control input s after its first n lines; a last line without newline
\* is a line
RECURSIVE DropLines(_, _)
DropLines(s, n) ==
    IF n = 0 \/ s = <<>> THEN s
    ELSE IF NlAt(s, 1) = 0 THEN <<>>
    ELSE DropLines(Drop(s, NlAt(s, 1)), n - 1)

\* the answers given so far, in order
Decisions == SelectSeq(hist, LAMBDA e : e.op \in {"yes", "no"})

\* C18: the k-th confirmation of rm -i is affirmative exactly when the k-th
\* line of the control input starts with y or Y.
C18_OneLinePerConfirmation ==
    \A k \in 1..Len(Decisions) :
        LET line == DropLines(stdin0, k - 1)
        IN  (Decisions[k].op = "yes") = (line # <<>> /\ line[1] \in {"y", "Y"})

----------------------------------------------------------------------------
(* The three utilities together: an invocation of any one of them *)

InitUtils == InitMv \/ InitCp \/ InitRm

NextUtils ==
    \/ prog = "mv" /\ NextMv
    \/ prog = "cp" /\ NextCp
    \/ prog = "rm" /\ NextRm

SpecUtils == InitUtils /\ [][NextUtils]_vars

----------------------------------------------------------------------------
(* Claims about more than one utility *)

\* more than one source and a last operand that is not an existing directory
\* (and neither --help nor --version, which end the run before the operands
\* are looked at)
MultiSourceNoDir ==
    /\ prog \in {"mv", "cp"} /\ opts.early = ""
    /\ Len(operands) > 2
    /\ ~stat_isdir(fs0, operands[Len(operands)])

\* C12: when cp or mv has more than one source and the last operand is not an
\* existing directory, the filesystem is never changed, the main loop is
\* never entered, and the invocation ends with a diagnostic and status 1.
C12_MultiSourceNeedsDirectory ==
    MultiSourceNoDir
        => /\ fs = fs0
           /\ pc \in {"start", "done"}
           /\ pc = "done" => (exit = 1 /\ nerr > 0)

C12_Witness ==
    MultiSourceNoDir /\ prog = "cp" /\ pc = "done" /\ exit = 1
        /\ Exists(fs0, operands[Len(operands)])
        /\ KindAt(fs0, operands[Len(operands)]) = "file"

\* C21: in cp and mv, whenever main is between two calls no descriptor or
\* directory handle is open, and whenever copy_directory is between two
\* calls, or copy_file has not yet opened anything, the open handles are
\* exactly the directories of the copy_directory activations in progress.
C21_HandlesReleased ==
    prog \in {"mv", "cp"}
        => /\ pc \in {"start", "loop", "done", "mv_stat"} => fds = 0
           /\ pc \in {"cd_enter", "cd_readdir", "cf_stat", "cf_prompt", "cf_drain",
                      "cf_drain_test", "cf_open_src"} => fds = Len(frames)

C21_Witness ==
    /\ prog = "cp" /\ pc = "done" /\ exit = 1
    /\ last.fn = "copy_file" /\ last.copy_failed = "write" /\ last.in_tree
    /\ fds = 0

\* C22: an invocation of cp, mv or rm with --help or --version never changes
\* the filesystem and ends with status 0.
C22_HelpAndVersionExitZero ==
    opts.early # "" => (fs = fs0 /\ (pc = "done" => exit = 0))

\* p named an entry of the filesystem when the invocation began
ExistedAtStart(p) == LReal(fs0, p) # NoPath /\ Exists(fs0, LReal(fs0, p))

\* C28: every entry that copy_directory hands to copy_file or to itself
\* existed when the invocation began: cp -r never copies an entry it has
\* created itself, also when the destination lies inside the source.
C28_CopiesOnlyOriginalEntries ==
    (prog = "cp" /\ pc \in {"cd_enter", "cf_stat"} /\ Len(frames) > 0)
        => ExistedAtStart(io.src)

----------------------------------------------------------------------------
(* tail (src/unnamed/part_004) *)

\* DEFAULT_LINES (10) and BUFFER_SIZE (8192), scaled to the inputs
DEFAULT_LINES == 2
TAIL_BUFFER_SIZE == 3
\* longest input of tail, in bytes
MaxTailLen == 5
\* largest NUM given to -n or -c
MaxTailNum == 3

\* the sequences over S of length at most n
RECURSIVE SeqsUpTo(_, _)
SeqsUpTo(S, n) ==
    IF n = 0 THEN {<<>>}
    ELSE LET shorter == SeqsUpTo(S, n - 1)
         IN  shorter \cup {Append(q, c) : q \in {r \in shorter : Len(r) = n - 1}, c \in S}

\* parse_options, lines 62-139, over the options given (operands holds them
\* in order): -n NUM / -n +NUM set lines to NUM / -NUM, -c NUM / -c +NUM set
\* bytes; lines starts as DEFAULT_LINES and bytes as -1
RECURSIVE parse_options(_, _)
parse_options(o, args) ==
    IF args = <<>> THEN o
    ELSE LET a == Head(args)
             v == IF a.plus THEN 0 - a.num ELSE a.num
         IN  parse_options(IF a.opt = "n" THEN [o EXCEPT !.lines = v]
                           ELSE [o EXCEPT !.bytes = v],
                           Tail(args))

\* fgets(buffer, size, file), lines 164, 171, 192: the characters read, at most
\* size - 1, ending after the first newline; <<>> stands for NULL
fgets(file, size) ==
    LET most == Min(size - 1, Len(file))
        nls == {k \in 1..most : file[k] = "nl"}
        n == IF nls = {} THEN most ELSE CHOOSE k \in nls : \A j \in nls : k <= j
    IN  SubSeq(file, 1, n)

\* main, lines 376-421, for the one input stream (no FILE operand: "-",
\* standard input, line 133; no header, line 383), without -f: the choice of
\* lines 403-411 and the guards of lines 154-156 and 231-233
tail_main ==
    /\ prog = "tail" /\ pc = "start"
    /\ IF opts.bytes > 0
       THEN \* tail_by_bytes(file, opts.bytes, 0)
            pc' = "tb" /\ UNCHANGED <<loc, exit>>
       ELSE IF opts.bytes < 0
       THEN \* tail_by_bytes(file, opts.bytes, -opts.bytes): bytes <= 0, return
            pc' = "done" /\ exit' = 0 /\ UNCHANGED loc
       ELSE IF opts.lines < 0
       THEN \* tail_by_lines(file, -1, -opts.lines): lines <= 0, return
            pc' = "done" /\ exit' = 0 /\ UNCHANGED loc
       ELSE IF opts.lines <= 0
       THEN \* tail_by_lines(file, 0, 0): lines <= 0, return
            pc' = "done" /\ exit' = 0 /\ UNCHANGED loc
       ELSE \* tail_by_lines(file, opts.lines, 0), lines 178-190
            /\ pc' = "tl_fgets"
            /\ loc' = [fn |-> "tail_by_lines", lines |-> opts.lines,
                       line_buffer |-> [k \in 0..(opts.lines - 1) |-> <<>>],
                       line_count |-> 0, pos |-> 0, i |-> 0]
            /\ UNCHANGED exit
    /\ UNCHANGED <<fs, invocation, stdin, i, nerr, out, fileutil>>

\* tail_by_lines, lines 192-212: one iteration of the fgets loop
tail_by_lines_fgets ==
    /\ prog = "tail" /\ pc = "tl_fgets"
    /\ LET buffer == fgets(stdin, TAIL_BUFFER_SIZE)
       IN  IF buffer = <<>>
           THEN pc' = "tl_fputs" /\ UNCHANGED <<loc, stdin>>
           ELSE /\ loc' = [loc EXCEPT !.line_buffer[loc.pos] = buffer,
                                      !.pos = (loc.pos + 1) % loc.lines,
                                      !.line_count = IF loc.line_count < loc.lines
                                                     THEN loc.line_count + 1
                                                     ELSE loc.line_count]
                /\ stdin' = SubSeq(stdin, Len(buffer) + 1, Len(stdin))
                /\ UNCHANGED pc
    /\ UNCHANGED <<fs, invocation, i, nerr, exit, out, fileutil>>

\* tail_by_lines, lines 215-218: one iteration of the output loop, then the
\* return to main and the end of the process (lines 220-226, 420).  A slot
\* that was never filled holds NULL: fputs(NULL, stdout) is undefined
\* behaviour, which kills the process (SIGSEGV, status 139) or writes nothing.
tail_by_lines_fputs ==
    /\ prog = "tail" /\ pc = "tl_fputs"
    /\ IF loc.i < loc.line_count
       THEN LET idx == (loc.pos + loc.i) % loc.lines
            IN  IF loc.line_buffer[idx] = <<>>
                THEN \/ pc' = "done" /\ exit' = 139 /\ UNCHANGED <<loc, out>>
                     \/ /\ loc' = [loc EXCEPT !.i = loc.i + 1]
                        /\ UNCHANGED <<pc, exit, out>>
                ELSE /\ out' = out \o loc.line_buffer[idx]
                     /\ loc' = [loc EXCEPT !.i = loc.i + 1]
                     /\ UNCHANGED <<pc, exit>>
       ELSE pc' = "done" /\ exit' = 0 /\ UNCHANGED <<loc, out>>
    /\ UNCHANGED <<fs, invocation, stdin, i, nerr, fileutil>>

\* tail_by_bytes, lines 250-296, with bytes > 0 and start_from_byte = 0: the
\* whole file when bytes >= file_size, else its last bytes bytes
tail_by_bytes ==
    /\ prog = "tail" /\ pc = "tb"
    /\ LET file_size == Len(stdin)
       IN  IF opts.bytes >= file_size
           THEN out' = out \o stdin
           ELSE out' = out \o SubSeq(stdin, file_size - opts.bytes + 1, file_size)
    /\ stdin' = <<>>
    /\ pc' = "done" /\ exit' = 0
    /\ UNCHANGED <<fs, invocation, i, nerr, loc, fileutil>>

NextTail ==
    \/ tail_main
    \/ tail_by_lines_fgets
    \/ tail_by_lines_fputs
    \/ tail_by_bytes

\* the option lists tried: none, -n NUM, -n +NUM, -c NUM, -c +NUM, -c 0
TailArgs ==
    {<<>>}
    \cup {<<[opt |-> o, plus |-> p, num |-> n]>> :
              o \in {"n", "c"}, p \in BOOLEAN, n \in 0..MaxTailNum}
    \cup {<<[opt |-> "c", plus |-> FALSE, num |-> 0],
            [opt |-> "n", plus |-> FALSE, num |-> n]>> : n \in 1..MaxTailNum}

InitTail ==
    /\ prog = "tail"
    /\ fs = <<>> /\ dev2 = {}
    /\ operands \in TailArgs
    /\ opts = parse_options([lines |-> DEFAULT_LINES, bytes |-> 0 - 1,
                             follow |-> FALSE, quiet |-> FALSE], operands)
    /\ stdin \in SeqsUpTo({"a", "nl"}, MaxTailLen)
    /\ InitCommon

SpecTail == InitTail /\ [][NextTail]_vars

\* the positions where a line of s starts
LineStarts(s) == {k \in 1..Len(s) : k = 1 \/ s[k - 1] = "nl"}

\* the last n lines of s (all of s when it has fewer)
LastLines(s, n) ==
    LET starts == LineStarts(s)
        later(k) == Cardinality({j \in starts : j >= k})
    IN  IF Cardinality(starts) <= n THEN s
        ELSE SubSeq(s, CHOOSE k \in starts : later(k) = n, Len(s))

\* C23: invoked with no -n, -c or -f option, tail ends having written the
\* last DEFAULT_LINES lines of its input to standard output (all of its
\* lines when it has fewer).
C23_DefaultLastLines ==
    (prog = "tail" /\ operands = <<>> /\ pc = "done")
        => (exit = 0 /\ out = LastLines(stdin0, DEFAULT_LINES))

----------------------------------------------------------------------------
(* cat (src/unnamed/part_003) *)

\* BUFFER_SIZE (16 KiB), scaled to the inputs
CAT_BUFFER_SIZE == 2
\* longest input of cat, in bytes
MaxCatLen == 5

\* the decimal digits of n, most significant first
RECURSIVE Decimal(_)
Decimal(n) ==
    LET d == <<"0", "1", "2", "3", "4", "5", "6", "7", "8", "9">>[(n % 10) + 1]
    IN  IF n < 10 THEN <<d>> ELSE Append(Decimal(n \div 10), d)

\* printf("%6d\t", n), line 122: n right-aligned in six columns, then a tab
printf_6d_tab(n) ==
    LET digits == Decimal(n)
        pad == IF Len(digits) < 6 THEN 6 - Len(digits) ELSE 0
    IN  [k \in 1..pad |-> "sp"] \o digits \o <<"tab">>

\* display_char, lines 158-187, for the characters of the model (printable
\* characters and newline; -v and -T change none of them)
display_char(c, o) ==
    IF o.show_ends /\ c = "nl" THEN <<c, "$">> ELSE <<c>>

\* main, lines 31-67, with no FILE operand: process_stdin, then
\* process_file("-"), lines 101-112
cat_main ==
    /\ prog = "cat" /\ pc = "start"
    /\ pc' = "read"
    /\ loc' = [fn |-> "process_file", buffer |-> <<>>, i |-> 1,
               line_number |-> 1, last_was_blank |-> FALSE]
    /\ UNCHANGED <<fs, invocation, stdin, i, nerr, exit, out, fileutil>>

\* process_file, lines 114 and 140-151: one read(); it returns any number of
\* bytes from 1 to BUFFER_SIZE (a short read), 0 at end of file, or -1
process_file_read ==
    /\ prog = "cat" /\ pc = "read"
    /\ \/ /\ stdin # <<>>
          /\ \E n \in 1..Min(CAT_BUFFER_SIZE, Len(stdin)) :
                 /\ loc' = [loc EXCEPT !.buffer = SubSeq(stdin, 1, n), !.i = 1]
                 /\ stdin' = SubSeq(stdin, n + 1, Len(stdin))
          /\ pc' = "char"
          /\ UNCHANGED <<exit, nerr, faults>>
       \/ /\ stdin = <<>>
          /\ pc' = "done" /\ exit' = 0
          /\ UNCHANGED <<loc, stdin, nerr, faults>>
       \/ /\ Fault
          /\ faults' = faults + 1 /\ nerr' = nerr + 1
          /\ pc' = "done" /\ exit' = 1
          /\ UNCHANGED <<loc, stdin>>
    /\ UNCHANGED <<fs, invocation, i, out, dest_is_dir, io, frames, fds,
                   exit_status, last, hist>>

\* process_file, lines 115-137: one iteration of the loop over the buffer
process_file_char ==
    /\ prog = "cat" /\ pc = "char"
    /\ IF loc.i > Len(loc.buffer)
       THEN pc' = "read" /\ UNCHANGED <<loc, out>>
       ELSE LET c == loc.buffer[loc.i]
                number == /\ opts.number_lines \/ opts.number_nonblank
                          /\ loc.i = 1 \/ loc.buffer[loc.i - 1] = "nl"
                          /\ ~opts.number_nonblank \/ c # "nl"
                numbered == IF number THEN out \o printf_6d_tab(loc.line_number)
                            ELSE out
                skip == opts.squeeze_blank /\ c = "nl" /\ loc.last_was_blank
            IN  /\ out' = IF skip THEN numbered
                          ELSE numbered \o display_char(c, opts)
                /\ loc' = [loc EXCEPT
                              !.i = loc.i + 1,
                              !.line_number = IF number THEN loc.line_number + 1
                                              ELSE loc.line_number,
                              !.last_was_blank = opts.squeeze_blank /\ c = "nl"]
                /\ UNCHANGED pc
    /\ UNCHANGED <<fs, invocation, stdin, i, nerr, exit, fileutil>>

NextCat ==
    \/ cat_main
    \/ process_file_read
    \/ process_file_char

CatOpts == {[show_ends |-> e, squeeze_blank |-> q, number_lines |-> n,
             number_nonblank |-> b] :
                e \in BOOLEAN, q \in BOOLEAN, n \in BOOLEAN, b \in BOOLEAN}

InitCat ==
    /\ prog = "cat"
    /\ fs = <<>> /\ dev2 = {}
    /\ operands = <<>>
    /\ opts \in CatOpts
    /\ stdin \in SeqsUpTo({"a", "nl"}, MaxCatLen)
    /\ InitCommon

SpecCat == InitCat /\ [][NextCat]_vars

\* position k of s holds an empty line (a newline at the start of a line)
EmptyLineAt(s, k) == s[k] = "nl" /\ k \in LineStarts(s)

\* s without the empty lines that directly follow an empty line
RECURSIVE SqueezeFrom(_, _)
SqueezeFrom(s, k) ==
    IF k > Len(s) THEN <<>>
    ELSE IF EmptyLineAt(s, k) /\ k > 1 /\ EmptyLineAt(s, k - 1)
         THEN SqueezeFrom(s, k + 1)
         ELSE <<s[k]>> \o SqueezeFrom(s, k + 1)

\* C24: with -s alone, cat writes its input with every run of consecutive
\* empty lines reduced to exactly one empty line and everything else
\* unchanged.
C24_SqueezeKeepsOneEmptyLine ==
    (prog = "cat" /\ pc = "done" /\ exit = 0 /\ opts.squeeze_blank
     /\ ~opts.number_lines /\ ~opts.number_nonblank /\ ~opts.show_ends)
        => out = SqueezeFrom(stdin0, 1)

\* s with each line prefixed by its number, counting from n
RECURSIVE NumberFrom(_, _, _)
NumberFrom(s, k, n) ==
    IF k > Len(s) THEN <<>>
    ELSE IF k \in LineStarts(s)
         THEN printf_6d_tab(n) \o <<s[k]>> \o NumberFrom(s, k + 1, n + 1)
         ELSE <<s[k]>> \o NumberFrom(s, k + 1, n)

\* C25: with -n alone, cat writes every line of its input prefixed by exactly
\* one line number, counting up from 1, and no number anywhere else, however
\* read() splits the input.
C25_NumbersOnlyAtLineStarts ==
    (prog = "cat" /\ pc = "done" /\ exit = 0 /\ opts.number_lines
     /\ ~opts.squeeze_blank /\ ~opts.number_nonblank /\ ~opts.show_ends)
        => out = NumberFrom(stdin0, 1, 1)

----------------------------------------------------------------------------
(* basename (src/unnamed/part_000) *)

\* longest NAME, in characters
MaxNameLen == 4

\* extract_basename, lines 40-77, on a string as the sequence of its
\* characters; last_slash is the offset of the pointer of that name in path
extract_basename(path) ==
    IF path = <<>> THEN <<>>
    ELSE LET slashes == {k \in 1..(Len(path) - 1) : path[k] = "/"}
             last_slash == IF slashes = {} THEN 0
                           ELSE CHOOSE k \in slashes : \A j \in slashes : j <= k
             rest == SubSeq(path, last_slash + 1, Len(path))
             len == IF Len(rest) > 0 /\ rest[Len(rest)] = "/"
                    THEN Len(rest) - 1 ELSE Len(rest)
         IN  IF len = 0 /\ last_slash > 0 THEN <<"/">>
             ELSE SubSeq(rest, 1, len)

\* remove_suffix, lines 79-93; <<>> stands for a NULL or empty suffix
remove_suffix(filename, suffix) ==
    LET name_len == Len(filename)
        suffix_len == Len(suffix)
    IN  IF suffix = <<>> \/ name_len < suffix_len THEN filename
        ELSE IF SubSeq(filename, name_len - suffix_len + 1, name_len) = suffix
             THEN SubSeq(filename, 1, name_len - suffix_len)
             ELSE filename

\* main, lines 134-144: the operand check and the NAME SUFFIX form
basename_main_start ==
    /\ prog = "basename" /\ pc = "start"
    /\ IF operands = <<>>
       THEN pc' = "done" /\ exit' = 1 /\ nerr' = nerr + 2 /\ UNCHANGED loc
       ELSE /\ pc' = "loop"
            /\ loc' = [fn |-> "main", path |-> <<>>, result |-> <<>>,
                       suffix |-> IF ~opts.multiple_args /\ Len(operands) = 2
                                  THEN operands[2] ELSE opts.suffix]
            /\ UNCHANGED <<exit, nerr>>
    /\ UNCHANGED <<fs, invocation, stdin, i, out, fileutil>>

\* main, lines 147-162: one iteration of the loop over the NAME arguments
basename_main_loop ==
    /\ prog = "basename" /\ pc = "loop"
    /\ IF i > Len(operands)
       THEN pc' = "done" /\ exit' = 0 /\ UNCHANGED <<i, loc, out>>
       ELSE IF ~opts.multiple_args /\ i = 2
       THEN i' = i + 1 /\ UNCHANGED <<pc, exit, loc, out>>
       ELSE LET basename_ == extract_basename(operands[i])
            IN  /\ loc' = [loc EXCEPT !.fn = "extract_basename",
                                      !.path = operands[i], !.result = basename_]
                /\ out' = out \o remove_suffix(basename_, loc.suffix)
                              \o <<IF opts.zero_terminated THEN "nul" ELSE "nl">>
                /\ i' = i + 1
                /\ UNCHANGED <<pc, exit>>
    /\ UNCHANGED <<fs, invocation, stdin, nerr, fileutil>>

NextBasename ==
    \/ basename_main_start
    \/ basename_main_loop

BasenameNames == SeqsUpTo({"a", "b", "/"}, MaxNameLen)

BasenameOperands ==
    {<<>>} \cup {<<n>> : n \in BasenameNames}
           \cup {<<n, m>> : n \in BasenameNames, m \in {<<"a">>, <<"b", "/">>}}

\* -s SUFFIX implies -a (line 117)
BasenameOpts ==
    {[multiple_args |-> m, zero_terminated |-> z, suffix |-> <<>>] :
         m \in BOOLEAN, z \in BOOLEAN}
    \cup {[multiple_args |-> TRUE, zero_terminated |-> FALSE, suffix |-> <<"a">>]}

InitBasename ==
    /\ prog = "basename"
    /\ fs = <<>> /\ dev2 = {}
    /\ operands \in BasenameOperands
    /\ opts \in BasenameOpts
    /\ stdin = <<>>
    /\ InitCommon

SpecBasename == InitBasename /\ [][NextBasename]_vars

\* the last non-empty slash-separated component of p, "/" when p holds
\* slashes only
LastComponent(p) ==
    LET names == {k \in 1..Len(p) : p[k] # "/"}
    IN  IF names = {} THEN <<"/">>
        ELSE LET e == CHOOSE k \in names : \A j \in names : j <= k
                 b == CHOOSE k \in 1..e :
                          /\ \A j \in k..e : p[j] # "/"
                          /\ k = 1 \/ p[k - 1] = "/"
             IN  SubSeq(p, b, e)

\* C26: for every non-empty path, extract_basename returns its last
\* non-empty slash-separated component, or "/" when the path consists only
\* of slashes.
C26_BasenameIsLastComponent ==
    (prog = "basename" /\ loc.fn = "extract_basename" /\ loc.path # <<>>)
        => loc.result = LastComponent(loc.path)

----------------------------------------------------------------------------
(* echo (src/unnamed/part_007, lines 200-346) *)

\* longest STRING argument and longest second STRING argument, in characters
MaxArgLen == 3
MaxArg2Len == 1

\* getEscapeSequence, lines 238-252, for the characters of the model: "bs"
\* is the backslash, "x" a character that is no escape letter; <<"none">>
\* stands for null
getEscapeSequence(escape_char) ==
    CASE escape_char = "bs" -> <<"bs">>
      [] escape_char = "c" -> <<>>
      [] escape_char = "n" -> <<"nl">>
      [] OTHER -> <<"none">>

\* processEscapes, lines 254-281, from position i of input (1-based): the
\* bytes appended to result, and whether the loop was left by the break of \c
RECURSIVE processEscapesFrom(_, _)
processEscapesFrom(input, k) ==
    IF k > Len(input) THEN [result |-> <<>>, stopped |-> FALSE]
    ELSE IF input[k] = "bs" /\ k + 1 <= Len(input)
    THEN LET escape_char == input[k + 1]
             replacement == getEscapeSequence(escape_char)
             rest == processEscapesFrom(input, k + 2)
         IN  IF replacement # <<"none">>
             THEN IF escape_char = "c"
                  THEN [result |-> replacement, stopped |-> TRUE]
                  ELSE [rest EXCEPT !.result = replacement \o rest.result]
             ELSE [rest EXCEPT !.result = <<"bs", escape_char>> \o rest.result]
    ELSE LET rest == processEscapesFrom(input, k + 1)
         IN  [rest EXCEPT !.result = <<input[k]>> \o rest.result]

processEscapes(input) == processEscapesFrom(input, 1).result

\* main, lines 283-326: the options are parsed (opts), neither --help nor
\* --version was given; first = true (line 327)
echo_main_start ==
    /\ prog = "echo" /\ pc = "start"
    /\ pc' = "loop"
    /\ loc' = [fn |-> "main", first |-> TRUE, stopped |-> FALSE]
    /\ UNCHANGED <<fs, invocation, stdin, i, nerr, exit, out, fileutil>>

\* main, lines 328-345: one iteration of the loop over the arguments, then
\* the trailing newline and the return.  loc.stopped is a ghost: whether a
\* call of processEscapes was ended by \c.
echo_main_loop ==
    /\ prog = "echo" /\ pc = "loop"
    /\ IF i <= Len(operands)
       THEN LET sep == IF loc.first THEN <<>> ELSE <<"sp">>
                processed == processEscapesFrom(operands[i], 1)
            IN  /\ out' = out \o sep \o (IF opts.interpret_escapes
                                         THEN processEscapes(operands[i])
                                         ELSE operands[i])
                /\ loc' = [loc EXCEPT !.first = FALSE,
                              !.stopped = loc.stopped
                                  \/ (opts.interpret_escapes /\ processed.stopped)]
                /\ i' = i + 1
                /\ UNCHANGED <<pc, exit>>
       ELSE /\ out' = IF opts.newline THEN Append(out, "nl") ELSE out
            /\ pc' = "done" /\ exit' = 0
            /\ UNCHANGED <<i, loc>>
    /\ UNCHANGED <<fs, invocation, stdin, nerr, fileutil>>

NextEcho ==
    \/ echo_main_start
    \/ echo_main_loop

EchoChars == {"x", "bs", "c", "n"}

EchoOperands ==
    {<<>>} \cup {<<a>> : a \in SeqsUpTo(EchoChars, MaxArgLen)}
           \cup {<<a, b>> : a \in SeqsUpTo(EchoChars, MaxArgLen),
                            b \in SeqsUpTo(EchoChars, MaxArg2Len)}

EchoOpts == {[interpret_escapes |-> e, newline |-> n] : e \in BOOLEAN, n \in BOOLEAN}

InitEcho ==
    /\ prog = "echo"
    /\ fs = <<>> /\ dev2 = {}
    /\ operands \in EchoOperands
    /\ opts \in EchoOpts
    /\ stdin = <<>>
    /\ InitCommon

SpecEcho == InitEcho /\ [][NextEcho]_vars

\* C27: with -e, once \c has been met in an argument, echo writes nothing
\* more: no later argument, no separating space, no trailing newline.
C27_NoOutputAfterStop ==
    [][(prog = "echo" /\ loc.fn = "main" /\ loc.stopped) => out' = out]_vars

----------------------------------------------------------------------------
(* touch (src/src/touch/main.cpp) *)

\* a regular file with its content, its permission bits for the user that
\* runs touch (who owns it), and its access and modification times
TouchFile(data, r, w, atime, mtime) ==
    [kind |-> "file", data |-> data, target |-> <<>>, r |-> r, w |-> w,
     atime |-> atime, mtime |-> mtime]

\* fileExists, lines 156-159: an ifstream opened on path is good(), that is
\* path could be opened for reading
fileExists(f, path) == Exists(f, path) /\ f[path].r

\* getLastAccessTime and getLastModificationTime, lines 161-209: st_atime and
\* st_mtime of path, 0 when stat fails
getLastAccessTime(f, path) == IF Exists(f, path) THEN f[path].atime ELSE 0
getLastModificationTime(f, path) == IF Exists(f, path) THEN f[path].mtime ELSE 0

\* std::ofstream f(path), line 333: open(path, O_WRONLY | O_CREAT | O_TRUNC).
\* A missing file is created empty, an existing writable file is truncated,
\* an existing file without write permission makes the open fail.
ofstream_open(f, path, now) ==
    IF ~Exists(f, path) THEN Put(f, path, TouchFile(<<>>, TRUE, TRUE, now, now))
    ELSE IF f[path].w THEN [f EXCEPT ![path].data = <<>>, ![path].mtime = now]
    ELSE f

\* main, lines 356-377, with neither -h nor -v: the check for operands
touch_main_start ==
    /\ prog = "touch" /\ pc = "start"
    /\ IF operands = <<>>
       THEN pc' = "done" /\ exit' = 1 /\ nerr' = nerr + 2
       ELSE pc' = "loop" /\ UNCHANGED <<exit, nerr>>
    /\ UNCHANGED <<fs, invocation, stdin, i, out, loc, fileutil>>

\* main, lines 378-381: the loop over the files, and touchFile up to the
\* choice of the times, lines 304-330.  The clock reads 2; -t STAMP, when it
\* parses, gives the time 3 (parseTimestamp, lines 53-109).
touch_main_loop ==
    /\ prog = "touch" /\ pc = "loop"
    /\ IF i > Len(operands)
       THEN pc' = "done" /\ exit' = 0 /\ UNCHANGED <<i, loc, nerr>>
       ELSE LET path == operands[i]
            IN  IF ~fileExists(fs, path) /\ ~opts.create
                THEN i' = i + 1 /\ UNCHANGED <<pc, exit, loc, nerr>>
                ELSE IF opts.reference # <<>>
                THEN IF ~fileExists(fs, opts.reference)
                     THEN /\ nerr' = nerr + 1 /\ i' = i + 1
                          /\ UNCHANGED <<pc, exit, loc>>
                     ELSE /\ loc' = [fn |-> "touchFile", path |-> path,
                                     accessTime |-> getLastAccessTime(fs, opts.reference),
                                     modifyTime |->
                                         getLastModificationTime(fs, opts.reference)]
                          /\ pc' = "create"
                          /\ UNCHANGED <<i, exit, nerr>>
                ELSE IF opts.timestamp = "invalid"
                THEN pc' = "done" /\ exit' = 1 /\ nerr' = nerr + 1
                     /\ UNCHANGED <<i, loc>>
                ELSE /\ loc' = [fn |-> "touchFile", path |-> path,
                                accessTime |-> IF opts.timestamp = "" THEN 2 ELSE 3,
                                modifyTime |-> IF opts.timestamp = "" THEN 2 ELSE 3]
                     /\ pc' = "create"
                     /\ UNCHANGED <<i, exit, nerr>>
    /\ UNCHANGED <<fs, invocation, stdin, out, fileutil>>

\* touchFile, lines 332-339: the file is created when fileExists says it is
\* not there
touchFile_create ==
    /\ prog = "touch" /\ pc = "create"
    /\ IF fileExists(fs, loc.path)
       THEN pc' = "utime" /\ UNCHANGED <<fs, i, nerr>>
       ELSE IF Exists(fs, loc.path) /\ ~fs[loc.path].w
       THEN \* f.fail()
            pc' = "loop" /\ i' = i + 1 /\ nerr' = nerr + 1 /\ UNCHANGED fs
       ELSE /\ fs' = ofstream_open(fs, loc.path, 2)
            /\ pc' = "utime"
            /\ UNCHANGED <<i, nerr>>
    /\ UNCHANGED <<invocation, stdin, exit, out, loc, fileutil>>

\* touchFile, lines 341-353: setFileTimes, setLastAccessTime or
\* setLastModificationTime (lines 232-235, 260-267, 292-299); utime with
\* explicit times succeeds for the owner of the file
touchFile_utime ==
    /\ prog = "touch" /\ pc = "utime"
    /\ fs' = [fs EXCEPT
                 ![loc.path].atime = IF opts.access THEN loc.accessTime ELSE @,
                 ![loc.path].mtime = IF opts.modify THEN loc.modifyTime ELSE @]
    /\ pc' = "loop" /\ i' = i + 1
    /\ UNCHANGED <<invocation, stdin, nerr, exit, out, loc, fileutil>>

NextTouch ==
    \/ touch_main_start
    \/ touch_main_loop
    \/ touchFile_create
    \/ touchFile_utime

\* a is missing or a file of two bytes with any permission bits; r is the
\* reference file
TouchA == {<<>>} \cup {<<"a">> :> TouchFile(D(2), r, w, 0, 0) : r \in BOOLEAN, w \in BOOLEAN}

TouchOperands == {<<>>, << <<"a">> >>, << <<"a">>, <<"b">> >>, << <<"a">>, <<"a">> >>}

\* the options after parseOptions, lines 111-154: without -a and -m both
\* times are changed
TouchOpts ==
    {[access |-> am[1], modify |-> am[2], create |-> c, reference |-> ref,
      timestamp |-> t] :
         am \in {<<TRUE, TRUE>>, <<TRUE, FALSE>>, <<FALSE, TRUE>>}, c \in BOOLEAN,
         ref \in {<<>>, <<"r">>, <<"m">>}, t \in {"", "valid", "invalid"}}

InitTouch ==
    /\ prog = "touch"
    /\ \E fa \in TouchA : fs = fa @@ (<<"r">> :> TouchFile(D(1), TRUE, TRUE, 1, 1))
    /\ dev2 = {}
    /\ operands \in TouchOperands
    /\ opts \in TouchOpts
    /\ stdin = <<>>
    /\ InitCommon

SpecTouch == InitTouch /\ [][NextTouch]_vars

\* C29: touch never changes the content of a file that existed when it
\* started, whatever the file's permission bits.
C29_ContentUntouched ==
    prog = "touch"
        => \A q \in DOMAIN fs0 : Exists(fs, q) /\ fs[q].data = fs0[q].data

----------------------------------------------------------------------------
(* mkdir (src/src/mkdir/main.cpp) *)

\* a path without its trailing slashes (empty last components)
RECURSIVE StripSlashes(_)
StripSlashes(p) ==
    IF p # <<>> /\ p[Len(p)] = "" THEN StripSlashes(SubSeq(p, 1, Len(p) - 1)) ELSE p

\* mkdir(2) on path p, lines 43 and 58: the errno it fails with ("" when it
\* succeeds).  An entry of any kind at p gives EEXIST; a missing or
\* non-directory parent gives ENOENT or ENOTDIR.
mkdir_errno(f, p) ==
    LET r == LReal(f, StripSlashes(p))
    IN  IF r = NoPath THEN "ENOENT"
        ELSE IF Exists(f, r) THEN "EEXIST"
        ELSE ""

\* the filesystem after a successful mkdir(2) on p
mkdir_made(f, p) == Put(f, LReal(f, StripSlashes(p)), Dir)

\* main, lines 123-138, after the option loop: no operand is an error
mkdir_main_start ==
    /\ prog = "mkdir" /\ pc = "start"
    /\ IF operands = <<>>
       THEN pc' = "done" /\ exit' = 1 /\ nerr' = nerr + 1 /\ UNCHANGED loc
       ELSE /\ pc' = "loop"
            /\ loc' = [fn |-> "main", k |-> 1, errno |-> "", rcs |-> <<>>]
            /\ UNCHANGED <<exit, nerr>>
    /\ UNCHANGED <<fs, invocation, stdin, i, out, fileutil>>

\* main, lines 139-145: the loop over the paths; exit_status is exit_code
mkdir_main_loop ==
    /\ prog = "mkdir" /\ pc = "loop"
    /\ IF i > Len(operands)
       THEN pc' = "done" /\ exit' = exit_status /\ UNCHANGED loc
       ELSE /\ pc' = "create"
            /\ loc' = [loc EXCEPT !.fn = "create_directory", !.k = 1]
            /\ UNCHANGED exit
    /\ UNCHANGED <<fs, invocation, stdin, i, nerr, out, fileutil>>

\* create_directory returns rc to main, lines 140-142; loc.rcs is a ghost:
\* the values returned so far
create_directory_return(rc, e) ==
    /\ loc' = [loc EXCEPT !.fn = "main", !.errno = e, !.rcs = Append(loc.rcs, rc)]
    /\ exit_status' = IF rc # 0 THEN 1 ELSE exit_status
    /\ i' = i + 1
    /\ pc' = "loop"

\* create_directory, lines 41-69: the one mkdir call without -p (lines 42-51),
\* or one iteration of the loop of -p that reaches a '/' or the end of the
\* path (lines 54-67): loc.k components of the path make current_path.  The
\* call may also fail for a reason of the environment (EACCES, ENOSPC).
create_directory ==
    /\ prog = "mkdir" /\ pc = "create"
    /\ LET path == operands[i]
           current_path == IF opts.parents THEN SubSeq(path, 1, loc.k) ELSE path
           e == mkdir_errno(fs, current_path)
           step(err, f) ==
               IF ~opts.parents
               THEN /\ fs' = f
                    /\ IF err = ""
                       THEN /\ out' = IF opts.verbose THEN Append(out, current_path)
                                      ELSE out
                            /\ create_directory_return(0, loc.errno)
                            /\ UNCHANGED nerr
                       ELSE /\ nerr' = nerr + 1
                            /\ create_directory_return(1, err)
                            /\ UNCHANGED out
               ELSE LET errno == IF err = "" THEN loc.errno ELSE err
                    IN  /\ fs' = f
                        /\ IF err # "" /\ errno # "EEXIST"
                           THEN /\ nerr' = nerr + 1
                                /\ create_directory_return(1, errno)
                                /\ UNCHANGED out
                           ELSE /\ out' = IF errno # "EEXIST" /\ opts.verbose
                                          THEN Append(out, current_path) ELSE out
                                /\ UNCHANGED nerr
                                /\ IF loc.k >= Len(path)
                                   THEN create_directory_return(0, errno)
                                   ELSE /\ loc' = [loc EXCEPT !.k = loc.k + 1,
                                                              !.errno = errno]
                                        /\ UNCHANGED <<pc, i, exit_status>>
       IN  \/ /\ step(e, IF e = "" THEN mkdir_made(fs, current_path) ELSE fs)
              /\ UNCHANGED faults
           \/ /\ e = "" /\ Fault /\ faults' = faults + 1
              /\ step("EACCES", fs)
    /\ UNCHANGED <<invocation, stdin, exit, dest_is_dir, io, frames, fds, last, hist>>

NextMkdir ==
    \/ mkdir_main_start
    \/ mkdir_main_loop
    \/ create_directory

\* e is a directory, f a regular file, s a symbolic link to e; a is missing
MkdirBase == (<<"e">> :> Dir) @@ (<<"f">> :> File(D(1))) @@ (<<"s">> :> Link(<<"e">>))

\* the DIRECTORY arguments, by components: a, a/b, e, e/a, f, f/a, s/a, a//b
MkdirPaths == {<<"a">>, <<"a", "b">>, <<"e">>, <<"e", "a">>, <<"f">>, <<"f", "a">>,
               <<"s", "a">>, <<"a", "", "b">>}

MkdirOperands == SeqsUpTo(MkdirPaths, 2)

MkdirOpts == {[parents |-> q, verbose |-> v] : q \in BOOLEAN, v \in BOOLEAN}

InitMkdir ==
    /\ prog = "mkdir"
    /\ fs = MkdirBase /\ dev2 = {}
    /\ operands \in MkdirOperands
    /\ opts \in MkdirOpts
    /\ stdin = <<>>
    /\ InitCommon

SpecMkdir == InitMkdir /\ [][NextMkdir]_vars

\* C30: whenever create_directory with -p has returned 0 for a path, the path
\* and each of its prefixes is a directory.
C30_SuccessMeansDirectories ==
    (prog = "mkdir" /\ opts.parents /\ loc.fn # "")
        => \A j \in 1..Len(loc.rcs) :
               loc.rcs[j] = 0
                   => \A k \in 1..Len(operands[j]) :
                          stat_isdir(fs, StripSlashes(SubSeq(operands[j], 1, k)))

=============================================================================
